---- MODULE Spec2Model ----
(***************************************************************************)
(* A model of the keymash keyboard-shortcut engine (src/lib/keymash.ts):   *)
(* the key identity map, the chord encoding, the binding registry with     *)
(* OR-explosion, the live key-state tracker, the sequence detector and the *)
(* keydown / keyup / blur dispatch loop of several instances that listen   *)
(* on the same window.                                                     *)
(*                                                                         *)
(* Representation.  A key name is the tuple of its character codes, so     *)
(* that length, charCodeAt and toLowerCase are computed as the code        *)
(* computes them.  A 512-bit chord (a bigint in the source) is the set of  *)
(* its set bit positions: | is union and a single-bit mask 1n << b is {b}. *)
(* The lookup map is keyed by combo.toString(), which is injective on      *)
(* bigints; the model keys the map by the chord itself.                    *)
(***************************************************************************)
EXTENDS Integers, Sequences, FiniteSets, TLC

(***************************************************************************)
(* Key names                                                               *)
(***************************************************************************)
\* names of the static table (keys of KEY_CODE_MAP)
N_ctrl       == <<99, 116, 114, 108>>
N_shift      == <<115, 104, 105, 102, 116>>
N_alt        == <<97, 108, 116>>
N_meta       == <<109, 101, 116, 97>>
N_capslock   == <<99, 97, 112, 115, 108, 111, 99, 107>>
N_tab        == <<116, 97, 98>>
N_escape     == <<101, 115, 99, 97, 112, 101>>
N_backspace  == <<98, 97, 99, 107, 115, 112, 97, 99, 101>>
N_enter      == <<101, 110, 116, 101, 114>>
N_space      == <<32>>
N_arrowup    == <<97, 114, 114, 111, 119, 117, 112>>
N_arrowdown  == <<97, 114, 114, 111, 119, 100, 111, 119, 110>>
N_arrowleft  == <<97, 114, 114, 111, 119, 108, 101, 102, 116>>
N_arrowright == <<97, 114, 114, 111, 119, 114, 105, 103, 104, 116>>
N_any        == <<97, 110, 121>>

\* the values of KeyboardEvent.key the browser reports for the keys used below
K_Control == <<67, 111, 110, 116, 114, 111, 108>>
K_a       == <<97>>
K_b       == <<98>>
K_s       == <<115>>

(***************************************************************************)
(* Bit position mapping                                                    *)
(***************************************************************************)
KEY_CODE_MAP ==
    (N_ctrl :> 1) @@ (N_shift :> 2) @@ (N_alt :> 3) @@ (N_meta :> 4) @@
    (N_capslock :> 5) @@ (N_tab :> 6) @@ (N_escape :> 7) @@
    (N_backspace :> 8) @@ (N_enter :> 9) @@ (N_space :> 10) @@
    (N_arrowup :> 20) @@ (N_arrowdown :> 21) @@ (N_arrowleft :> 22) @@
    (N_arrowright :> 23)

\* String.prototype.toLowerCase on the ASCII range
toLowerCase(s) ==
    [i \in 1..Len(s) |-> IF s[i] \in 65..90 THEN s[i] + 32 ELSE s[i]]

getBitPos(key) ==
    LET normalized == IF Len(key) = 1 THEN toLowerCase(key) ELSE key
    IN  IF normalized \in DOMAIN KEY_CODE_MAP THEN KEY_CODE_MAP[normalized]
        ELSE IF Len(normalized) = 1 THEN normalized[1]
        ELSE (normalized[1] % 100) + 128

HOLD_OFFSET == 0
PRESS_OFFSET == 256
HOLD_RANGE_MASK == 0..255
PRESS_RANGE_MASK == 256..511
ANY_SENTINEL == {255}
ANY_HOLD == ANY_SENTINEL
ANY_PRESS == {b + 256 : b \in ANY_SENTINEL}

(***************************************************************************)
(* The exported hold and press tables                                      *)
(***************************************************************************)
aliases ==
    (<<119, 105, 110, 100, 111, 119, 115>> :> N_meta) @@
    (<<99, 111, 109, 109, 97, 110, 100>> :> N_meta) @@
    (<<117, 112>> :> N_arrowup) @@
    (<<108, 101, 102, 116>> :> N_arrowleft) @@
    (<<114, 105, 103, 104, 116>> :> N_arrowright) @@
    (<<100, 111, 119, 110>> :> N_arrowdown) @@
    (<<115, 112, 97, 99, 101>> :> N_space) @@
    (<<98, 97, 99, 107, 116, 105, 99, 107>> :> <<96>>) @@
    (<<100, 97, 115, 104>> :> <<45>>) @@
    (<<101, 113, 117, 97, 108, 115>> :> <<61>>) @@
    (<<108, 101, 102, 116, 115, 113, 117, 97, 114, 101, 98, 114, 97, 99, 107, 101, 116>> :> <<91>>) @@
    (<<114, 105, 103, 104, 116, 115, 113, 117, 97, 114, 101, 98, 114, 97, 99, 107, 101, 116>> :> <<93>>) @@
    (<<115, 101, 109, 105, 99, 111, 108, 111, 110>> :> <<59>>) @@
    (<<97, 112, 111, 115, 116, 114, 111, 112, 104, 101>> :> <<39>>) @@
    (<<99, 111, 109, 109, 97>> :> <<44>>) @@
    (<<112, 101, 114, 105, 111, 100>> :> <<46>>) @@
    (<<115, 108, 97, 115, 104>> :> <<47>>) @@
    (<<98, 97, 99, 107, 115, 108, 97, 115, 104>> :> <<92>>)

\* num0 .. num9, the aliases of the digit keys
numAliases == [n \in {<<110, 117, 109, d>> : d \in 48..57} |-> <<n[4]>>]

\* F1 .. F12
FunctionKeys == {<<70, d>> : d \in 49..57} \cup {<<70, 49, d>> : d \in 48..50}

\* the names register() was called with when the module was loaded
Registered(k) ==
    \/ k \in DOMAIN KEY_CODE_MAP
    \/ Len(k) = 1 /\ k[1] \in 32..126
    \/ k \in FunctionKeys

\* the bit position behind the entry of name k in hold and in press; -1 when
\* the tables have no entry of that name
register(k) ==
    IF k = N_any THEN 255
    ELSE IF k \in DOMAIN aliases THEN getBitPos(aliases[k])
    ELSE IF k \in DOMAIN numAliases THEN getBitPos(numAliases[k])
    ELSE IF Registered(k) THEN getBitPos(k)
    ELSE -1

\* a mutant of press: the press entry lies in the hold half
pressInHoldHalf(k) == {register(k) + HOLD_OFFSET}

hold(k) == {register(k) + HOLD_OFFSET}
press(k) == {register(k) + PRESS_OFFSET}

\* Keymash._getMask: the table entry when there is one, else the computed
\* mask (which the source also memoizes in the table: the memoized value is
\* the computed one, so later calls agree)
GetMask(k, offset) ==
    IF register(k) >= 0 THEN {register(k) + offset}
    ELSE {getBitPos(k) + offset}

(***************************************************************************)
(* Chords written with + and their text                                    *)
(***************************************************************************)
\* the + of two bigints, on their sets of one-bits: the bits both have carry
\* into the next position
RECURSIVE plus(_, _)
plus(a, b) ==
    IF b = {} THEN a
    ELSE plus((a \cup b) \ (a \cap b), {n + 1 : n \in a \cap b})

\* the inverse map: the table names first, then the printable ASCII
\* characters whose code is not yet a key of the map
BIT_TO_KEY_MAP ==
    [bit \in {KEY_CODE_MAP[n] : n \in DOMAIN KEY_CODE_MAP} |->
        CHOOSE n \in DOMAIN KEY_CODE_MAP : KEY_CODE_MAP[n] = bit]
    @@ [code \in 32..126 |-> <<code>>]

\* String.prototype.localeCompare on ASCII names: digits before letters,
\* other characters before digits, letters by the alphabet whatever their
\* case, and lowercase before uppercase when nothing else differs
localeCompare(a, b) ==
    LET primary(c) == IF c \in 65..90 THEN 200 + c + 32
                      ELSE IF c \in 97..122 THEN 200 + c
                      ELSE IF c \in 48..57 THEN 100 + c
                      ELSE c
        tertiary(c) == IF c \in 65..90 THEN 1 ELSE 0
        shorter == IF Len(a) < Len(b) THEN Len(a) ELSE Len(b)
        lex(f(_)) ==
            LET d == {n \in 1..shorter : f(a[n]) # f(b[n])}
            IN  IF d = {}
                THEN IF Len(a) < Len(b) THEN -1 ELSE IF Len(a) > Len(b) THEN 1 ELSE 0
                ELSE LET n == CHOOSE m \in d : \A o \in d : m <= o
                     IN  IF f(a[n]) < f(b[n]) THEN -1 ELSE 1
    IN  IF lex(primary) # 0 THEN lex(primary) ELSE lex(tertiary)

\* the parts array of comboToText: the names of the hold bits, sorted by the
\* comparator, then the names of the press bits in bit order
comboParts(combo) ==
    LET holdMask == combo \cap HOLD_RANGE_MASK
        pressMask == {b - 256 : b \in combo \cap PRESS_RANGE_MASK}
        modifierOrder == <<K_Control, <<83, 104, 105, 102, 116>>,
                           <<65, 108, 116>>, <<77, 101, 116, 97>>>>
        indexOf(a) == IF \E n \in 1..4 : modifierOrder[n] = a
                      THEN (CHOOSE n \in 1..4 : modifierOrder[n] = a) - 1
                      ELSE -1
        RECURSIVE Decimal(_)
        Decimal(n) == IF n < 10 THEN <<48 + n>>
                      ELSE Decimal(n \div 10) \o <<48 + (n % 10)>>
        keyName(i) == IF i \in DOMAIN BIT_TO_KEY_MAP THEN BIT_TO_KEY_MAP[i]
                      ELSE <<75, 101, 121>> \o Decimal(i)
        RECURSIVE names(_)
        names(mask) ==
            IF mask = {} THEN <<>>
            ELSE LET i == CHOOSE m \in mask : \A o \in mask : m <= o
                 IN  <<keyName(i)>> \o names(mask \ {i})
        compare(a, b) ==
            LET aIdx == indexOf(a)
                bIdx == indexOf(b)
            IN  IF aIdx >= 0 /\ bIdx >= 0 THEN aIdx - bIdx
                ELSE IF aIdx >= 0 THEN -1
                ELSE IF bIdx >= 0 THEN 1
                ELSE localeCompare(a, b)
        \* Array.prototype.sort is stable
        RECURSIVE sort(_)
        sort(s) ==
            IF s = <<>> THEN <<>>
            ELSE LET r == sort(SubSeq(s, 1, Len(s) - 1))
                     x == s[Len(s)]
                     k == Cardinality({n \in 1..Len(r) : compare(r[n], x) <= 0})
                 IN  SubSeq(r, 1, k) \o <<x>> \o SubSeq(r, k + 1, Len(r))
    IN  sort(names(holdMask)) \o names(pressMask)

\* parts.join('+')
comboToText(combo) ==
    LET RECURSIVE join(_)
        join(parts) == IF parts = <<>> THEN <<>>
                       ELSE IF Len(parts) = 1 THEN parts[1]
                       ELSE parts[1] \o <<43>> \o join(Tail(parts))
    IN  join(comboParts(combo))

(***************************************************************************)
(* Binding processing                                                      *)
(***************************************************************************)
\* a mutant of explodeBinding: the combo is registered as it is
explodeUnsplit(combo) == {combo}

\* the lookup keys explodeBinding produces for a combo: one per press bit
\* with the hold half, or the combo unchanged when it has no press bit
explodeBinding(combo) ==
    LET holdPart == combo \cap HOLD_RANGE_MASK
        pressPart == combo \cap PRESS_RANGE_MASK
    IN  IF pressPart = {} THEN {combo}
        ELSE {holdPart \cup {p} : p \in pressPart}


(***************************************************************************)
(* The DOM the instances live in: the window, and a document whose body    *)
(* holds the scope element E (with one descendant) and one element outside *)
(***************************************************************************)
Parent == ("inE" :> "E") @@ ("E" :> "body") @@ ("out" :> "body") @@ ("body" :> "none")

\* Node.contains: other is node or a descendant of node
RECURSIVE contains(_, _)
contains(node, other) ==
    IF other = node THEN TRUE
    ELSE IF other \notin DOMAIN Parent THEN FALSE
    ELSE contains(node, Parent[other])

Inst == {1, 2}
Other(i) == 3 - i

(***************************************************************************)
(* State.  One variable per field of a Keymash instance (a function of the *)
(* instance), the listener list of the window, the process-wide target     *)
(* registry, the pending setTimeout calls and the clock; then the record   *)
(* of what the last operation did (the handlers it invoked, who called     *)
(* preventDefault, the onUpdate and onChange notifications it sent); and   *)
(* one instance of keymash/core (its fields _t, _a, _k and _l, and the     *)
(* handlers the last operation made it invoke).                            *)
(***************************************************************************)
VARIABLES
    isDev,              \* the build's development-mode flag
    target,             \* Keymash.target: "window" or the scope element
    bindings,           \* Keymash.bindings: the list of Binding objects
    active,             \* Keymash._active
    activeKeys,         \* Keymash._activeKeys: the held key names
    lookup,             \* Keymash._lookup: chord -> Binding
    changeListeners,    \* Keymash._changeListeners, in insertion order
    onUpdate,           \* whether Keymash._onUpdate is set
    sequences,          \* Keymash._sequences
    sequenceBuffer,     \* Keymash._sequenceBuffer
    sequenceIdCounter,  \* Keymash._sequenceIdCounter
    lastKeyTime,        \* Keymash._lastKeyTime
    sequenceTimeout,    \* Keymash._sequenceTimeout
    listeners,          \* the window's event listeners, in attachment order
    targetRegistry,     \* targetRegistry: scope target -> Set of instances, in insertion order
    timers,             \* handler calls scheduled with setTimeout, not yet run
    now,                \* Date.now()
    ev,                 \* the last operation
    calls,              \* the handlers the last operation invoked, in order
    prevented,          \* the instances that called preventDefault in it
    updates,            \* the onUpdate notifications it sent, in order
    toggles,            \* the changes of _active it made, in order
    changes,            \* the onChange notifications it sent, in order
    core                \* a keymash/core instance on the same page, and its calls

vars == <<isDev, target, bindings, active, activeKeys, lookup, changeListeners,
          onUpdate, sequences, sequenceBuffer, sequenceIdCounter, lastKeyTime,
          sequenceTimeout, listeners, targetRegistry, timers, now, ev, calls,
          prevented, updates, toggles, changes, core>>

\* the state as one value, for the operations below (each a function from
\* state to state, as a method call is)
State ==
    [isDev |-> isDev, target |-> target, bindings |-> bindings, active |-> active,
     activeKeys |-> activeKeys, lookup |-> lookup,
     changeListeners |-> changeListeners, onUpdate |-> onUpdate,
     sequences |-> sequences, sequenceBuffer |-> sequenceBuffer,
     sequenceIdCounter |-> sequenceIdCounter, lastKeyTime |-> lastKeyTime,
     sequenceTimeout |-> sequenceTimeout, listeners |-> listeners,
     targetRegistry |-> targetRegistry, timers |-> timers, now |-> now,
     ev |-> ev, calls |-> calls, prevented |-> prevented, updates |-> updates,
     toggles |-> toggles, changes |-> changes, core |-> core]

\* the next state is st
Commit(st) ==
    /\ isDev' = st.isDev
    /\ target' = st.target
    /\ bindings' = st.bindings
    /\ active' = st.active
    /\ activeKeys' = st.activeKeys
    /\ lookup' = st.lookup
    /\ changeListeners' = st.changeListeners
    /\ onUpdate' = st.onUpdate
    /\ sequences' = st.sequences
    /\ sequenceBuffer' = st.sequenceBuffer
    /\ sequenceIdCounter' = st.sequenceIdCounter
    /\ lastKeyTime' = st.lastKeyTime
    /\ sequenceTimeout' = st.sequenceTimeout
    /\ listeners' = st.listeners
    /\ targetRegistry' = st.targetRegistry
    /\ timers' = st.timers
    /\ now' = st.now
    /\ ev' = st.ev
    /\ calls' = st.calls
    /\ prevented' = st.prevented
    /\ updates' = st.updates
    /\ toggles' = st.toggles
    /\ changes' = st.changes
    /\ core' = st.core

\* the state at the start of operation e: the record of the last one is dropped
Begin(e) ==
    [State EXCEPT !.ev = e, !.calls = <<>>, !.prevented = {}, !.updates = <<>>,
                  !.toggles = <<>>, !.changes = <<>>, !.core.calls = <<>>]

(***************************************************************************)
(* The window's listener list (EventTarget.addEventListener and            *)
(* removeEventListener): adding a callback already attached for that event *)
(* type changes nothing                                                    *)
(***************************************************************************)
EventTypes == <<"keydown", "keyup", "blur">>

RECURSIVE addEventListeners(_, _, _)
addEventListeners(ls, i, types) ==
    IF types = <<>> THEN ls
    ELSE LET l == [inst |-> i, type |-> Head(types)]
             has == \E n \in 1..Len(ls) : ls[n] = l
         IN  addEventListeners(IF has THEN ls ELSE Append(ls, l), i, Tail(types))

removeEventListeners(ls, i) == SelectSeq(ls, LAMBDA l : l.inst # i)

(***************************************************************************)
(* Target registry                                                         *)
(***************************************************************************)
\* a Set of the source is the sequence of its elements in insertion order
registerTarget(reg, t, i) ==
    IF t \notin DOMAIN reg THEN reg @@ (t :> <<i>>)
    ELSE IF \E n \in 1..Len(reg[t]) : reg[t][n] = i THEN reg
    ELSE [reg EXCEPT ![t] = Append(@, i)]

unregisterTarget(reg, t, i) ==
    IF t \in DOMAIN reg THEN [reg EXCEPT ![t] = SelectSeq(@, LAMBDA j : j # i)] ELSE reg

\* undefined (no Set was ever made for the target) is the empty sequence
getKeymashInstances(reg, t) == IF t \in DOMAIN reg THEN reg[t] ELSE <<>>

\* toFullBinding: the binding with its text (id stands for the identity of
\* the handler function; the bindings here are made without a label)
toFullBinding(b) ==
    [id |-> b.id, combo |-> b.combo, handler |-> b.handler, delay |-> b.delay,
     repeat |-> b.repeat, comboText |-> comboToText(b.combo)]

\* a mutant of getActiveBindings: every instance made for the target is
\* listed, registered or not
getAllBindings(st, t) ==
    LET RECURSIVE collect(_)
        collect(instances) ==
            IF instances = <<>> THEN <<>>
            ELSE [n \in 1..Len(st.bindings[Head(instances)]) |->
                     toFullBinding(st.bindings[Head(instances)][n])]
                 \o collect(Tail(instances))
    IN  collect(SelectSeq(<<1, 2>>, LAMBDA i : st.target[i] = t))

\* getActiveBindings(target) for a window or an element: the bindings of the
\* instances the registry lists under the target, in the order of the Set
getActiveBindings(st, t) ==
    LET RECURSIVE collect(_)
        collect(instances) ==
            IF instances = <<>> THEN <<>>
            ELSE [n \in 1..Len(st.bindings[Head(instances)]) |->
                     toFullBinding(st.bindings[Head(instances)][n])]
                 \o collect(Tail(instances))
    IN  collect(getKeymashInstances(st.targetRegistry, t))

(***************************************************************************)
(* Keymash methods                                                         *)
(***************************************************************************)
RECURSIVE notifyEach(_, _, _)
notifyEach(log, i, fns) ==
    IF fns = <<>> THEN log
    ELSE notifyEach(Append(log, [inst |-> i, fn |-> Head(fns)]), i, Tail(fns))

\* a mutant of _notifyChange: only the listener subscribed first is called
notifyChangeFirstOnly(st, i) ==
    [st EXCEPT !.changes = notifyEach(@, i, IF st.changeListeners[i] = <<>> THEN <<>>
                                               ELSE <<Head(st.changeListeners[i])>>)]

\* Keymash._notifyChange: every subscribed listener is called, in order
notifyChange(st, i) ==
    [st EXCEPT !.changes = notifyEach(@, i, st.changeListeners[i])]

\* a mutant of setActive: the early return on an unchanged value is missing
setActiveNoGuard(st, i, v) ==
    LET s1 == [st EXCEPT !.active[i] = v, !.toggles = Append(@, [inst |-> i, active |-> v])]
        s2 == IF v
              THEN [s1 EXCEPT
                      !.listeners = addEventListeners(@, i, EventTypes),
                      !.targetRegistry = registerTarget(@, st.target[i], i)]
              ELSE [s1 EXCEPT
                      !.listeners = removeEventListeners(@, i),
                      !.targetRegistry = unregisterTarget(@, st.target[i], i),
                      !.activeKeys[i] = {}]
    IN  notifyChange(s2, i)

\* a mutant of setActive: switching off also forgets the typed characters
setActiveForgetsTyped(st, i, v) ==
    IF st.active[i] = v THEN st
    ELSE LET s1 == [st EXCEPT !.active[i] = v, !.toggles = Append(@, [inst |-> i, active |-> v])]
             s2 == IF v
                   THEN [s1 EXCEPT
                           !.listeners = addEventListeners(@, i, EventTypes),
                           !.targetRegistry = registerTarget(@, st.target[i], i)]
                   ELSE [s1 EXCEPT
                           !.listeners = removeEventListeners(@, i),
                           !.targetRegistry = unregisterTarget(@, st.target[i], i),
                           !.activeKeys[i] = {},
                           !.sequenceBuffer[i] = <<>>, !.lastKeyTime[i] = 0]
         IN  notifyChange(s2, i)

\* Keymash.setActive
setActive(st, i, v) ==
    IF st.active[i] = v THEN st
    ELSE LET s1 == [st EXCEPT !.active[i] = v, !.toggles = Append(@, [inst |-> i, active |-> v])]
             s2 == IF v
                   THEN [s1 EXCEPT
                           !.listeners = addEventListeners(@, i, EventTypes),
                           !.targetRegistry = registerTarget(@, st.target[i], i)]
                   ELSE [s1 EXCEPT
                           !.listeners = removeEventListeners(@, i),
                           !.targetRegistry = unregisterTarget(@, st.target[i], i),
                           !.activeKeys[i] = {}]
         IN  notifyChange(s2, i)

\* a mutant of destroy: the instance is only deactivated
deactivateOnly(st, i) == setActive(st, i, FALSE)

\* Keymash.destroy
destroy(st, i) ==
    [setActive(st, i, FALSE) EXCEPT
        !.changeListeners[i] = <<>>, !.onUpdate[i] = FALSE,
        !.sequences[i] = <<>>, !.sequenceBuffer[i] = <<>>]

(***************************************************************************)
(* Binding registry                                                        *)
(***************************************************************************)
\* a mutant of setLookup: a key that is taken keeps its binding
setLookupKeepFirst(l, b) ==
    LET keys == explodeBinding(b.combo)
    IN  [k \in DOMAIN l \cup keys |-> IF k \in DOMAIN l THEN l[k] ELSE b]

\* this._lookup.set(key, b) for every key of explodeBinding(b)
setLookup(l, b) ==
    LET keys == explodeBinding(b.combo)
    IN  [k \in DOMAIN l \cup keys |-> IF k \in keys THEN b ELSE l[k]]

\* Keymash._addBindings.  In development mode reportConflict throws at the
\* first binding one of whose lookup keys is taken: the bindings before it
\* stay added.  The result is the state and whether the call threw.
RECURSIVE addBindings(_, _, _)
addBindings(st, i, bs) ==
    IF bs = <<>> THEN [st |-> st, thrown |-> FALSE]
    ELSE LET b == Head(bs)
             conflict == \E k \in explodeBinding(b.combo) : k \in DOMAIN st.lookup[i]
         IN  IF st.isDev /\ conflict THEN [st |-> st, thrown |-> TRUE]
             ELSE addBindings([st EXCEPT !.bindings[i] = Append(@, b),
                                         !.lookup[i] = setLookup(@, b)],
                              i, Tail(bs))

\* Keymash.bind with a binding, an array of bindings, or a combo and its
\* handler (then bs is the one binding made of them)
bind(st, i, bs) ==
    LET r == addBindings(st, i, bs)
    IN  IF r.thrown THEN r.st ELSE notifyChange(r.st, i)

\* a mutant of bindShorthand: the handler is not checked
bindShorthandUnchecked(st, i, combo, h) ==
    bind(st, i, <<[id |-> 0, combo |-> combo, handler |-> h, repeat |-> FALSE, delay |-> 0]>>)

\* Keymash.bind(combo, handler), the shorthand: without a handler it throws
\* before anything is added; h = "undefined" stands for a missing handler
bindShorthand(st, i, combo, h) ==
    IF h = "undefined" THEN st
    ELSE bind(st, i, <<[id |-> 0, combo |-> combo, handler |-> h, repeat |-> FALSE,
                        delay |-> 0]>>)

RECURSIVE rebuildFrom(_, _)
rebuildFrom(l, bs) ==
    IF bs = <<>> THEN l ELSE rebuildFrom(setLookup(l, Head(bs)), Tail(bs))

\* a mutant of _rebuildLookup: the map is not cleared first
rebuildLookupNoClear(st, i) ==
    [st EXCEPT !.lookup[i] = rebuildFrom(@, st.bindings[i])]

\* Keymash._rebuildLookup
rebuildLookup(st, i) ==
    [st EXCEPT !.lookup[i] = rebuildFrom(<<>>, st.bindings[i])]

\* a mutant of unbind: the lookup map is not rebuilt
unbindNoRebuild(st, i, cs) ==
    notifyChange([st EXCEPT !.bindings[i] = SelectSeq(@, LAMBDA b : b.combo \notin cs)], i)

\* a mutant of unbind: a binding goes when one of its lookup keys is listed
unbindExploded(st, i, cs) ==
    LET s1 == [st EXCEPT !.bindings[i] =
                   SelectSeq(@, LAMBDA b : b.combo \notin cs /\ explodeBinding(b.combo) \cap cs = {})]
    IN  notifyChange(rebuildLookup(s1, i), i)

\* Keymash.unbind of the combos in the set cs
unbind(st, i, cs) ==
    LET s1 == [st EXCEPT !.bindings[i] = SelectSeq(@, LAMBDA b : b.combo \notin cs)]
    IN  notifyChange(rebuildLookup(s1, i), i)

(***************************************************************************)
(* Handlers.  A handler is application code; the model has the ones the    *)
(* documented patterns use.  Each is called with the instance it is        *)
(* registered on.                                                          *)
(*   "noop"       does nothing to any instance                             *)
(*   "deactivate" km.setActive(false)                                      *)
(*   "handoff"    km.setActive(false); other.setActive(true)               *)
(*   "unbind"     km.unbind(press.a)                                       *)
(***************************************************************************)
Handlers == {"noop", "deactivate", "handoff", "unbind"}

\* the call of handler h, registered as `id` on instance i; kind says
\* whether a binding or a sequence registered it
invoke(st, i, kind, id, h) ==
    LET s1 == [st EXCEPT !.calls = Append(@, [inst |-> i, kind |-> kind, id |-> id])]
    IN  CASE h = "noop" -> s1
          [] h = "deactivate" -> setActive(s1, i, FALSE)
          [] h = "handoff" -> setActive(setActive(s1, i, FALSE), Other(i), TRUE)
          [] h = "unbind" -> unbind(s1, i, {press(K_a)})

(***************************************************************************)
(* Sequence detector                                                       *)
(***************************************************************************)
DEFAULT_SEQUENCE_TIMEOUT == 1000
BUFFER_MARGIN == 50

\* a mutant of endsWith: String.prototype.startsWith
startsWith(buf, s) ==
    /\ Len(s) <= Len(buf)
    /\ SubSeq(buf, 1, Len(s)) = s

endsWith(buf, s) ==
    /\ Len(s) <= Len(buf)
    /\ SubSeq(buf, Len(buf) - Len(s) + 1, Len(buf)) = s

MaxOf(S) == CHOOSE m \in S : \A n \in S : n <= m

\* Keymash.sequence.  opt is the timeout option, -1 when it is not given.
\* In development mode a duplicate or a suffix conflict throws before the
\* sequence is pushed; the id counter is already incremented.
sequence(st, i, text, h, opt) ==
    LET id == st.sequenceIdCounter[i] + 1
        normalizedSequence == toLowerCase(text)
        s1 == [st EXCEPT !.sequenceIdCounter[i] = id]
        seqs == st.sequences[i]
        conflict == \E n \in 1..Len(seqs) :
                        \/ seqs[n].sequence = normalizedSequence
                        \/ endsWith(normalizedSequence, seqs[n].sequence)
                        \/ endsWith(seqs[n].sequence, normalizedSequence)
    IN  IF st.isDev /\ conflict THEN s1
        ELSE notifyChange(
                [s1 EXCEPT
                    !.sequences[i] = Append(@, [sequence |-> normalizedSequence,
                                                handler |-> h, id |-> id]),
                    !.sequenceTimeout[i] = IF opt >= 0 THEN opt ELSE @],
                i)

\* the function Keymash.sequence returns
unsubscribeSequence(st, i, id) ==
    notifyChange([st EXCEPT !.sequences[i] = SelectSeq(@, LAMBDA q : q.id # id)], i)

\* a mutant of isSequenceKey: every key feeds the detector
isAnyKey(key) == TRUE

\* the keys _checkSequences tracks: single characters
isSequenceKey(key) == Len(key) = 1

\* a mutant of idleTooLong: the buffer is reset at the timeout already
idleAtLeastTimeout(st, i) == st.now - st.lastKeyTime[i] >= st.sequenceTimeout[i]

\* too much time has passed since the last tracked key
idleTooLong(st, i) == st.now - st.lastKeyTime[i] > st.sequenceTimeout[i]

\* a mutant of firstMatch: the sequence registered last wins
lastMatch(hits) == CHOOSE m \in hits : \A o \in hits : m >= o

\* the loop over this._sequences breaks at the first match
firstMatch(hits) == CHOOSE m \in hits : \A o \in hits : m <= o

\* a mutant of _checkSequences: the buffer is cut at its end, the oldest
\* characters stay
checkSequencesKeepOldest(st, i, key) ==
    IF ~isSequenceKey(key) THEN st
    ELSE LET buf0 == IF idleTooLong(st, i) THEN <<>> ELSE st.sequenceBuffer[i]
             buf1 == buf0 \o toLowerCase(key)
             seqs == st.sequences[i]
             maxLen == MaxOf({BUFFER_MARGIN} \cup {Len(seqs[n].sequence) : n \in 1..Len(seqs)})
             buf2 == IF Len(buf1) > maxLen THEN SubSeq(buf1, 1, maxLen) ELSE buf1
             hits == {n \in 1..Len(seqs) : endsWith(buf2, seqs[n].sequence)}
             s1 == [st EXCEPT !.lastKeyTime[i] = st.now, !.sequenceBuffer[i] = buf2]
         IN  IF hits = {} THEN s1
             ELSE LET n == firstMatch(hits)
                  IN  invoke([s1 EXCEPT !.sequenceBuffer[i] = <<>>], i, "sequence",
                             seqs[n].id, seqs[n].handler)

\* Keymash._checkSequences
checkSequences(st, i, key) ==
    IF ~isSequenceKey(key) THEN st
    ELSE LET buf0 == IF idleTooLong(st, i) THEN <<>> ELSE st.sequenceBuffer[i]
             buf1 == buf0 \o toLowerCase(key)
             seqs == st.sequences[i]
             maxLen == MaxOf({BUFFER_MARGIN} \cup {Len(seqs[n].sequence) : n \in 1..Len(seqs)})
             buf2 == IF Len(buf1) > maxLen
                     THEN SubSeq(buf1, Len(buf1) - maxLen + 1, Len(buf1))
                     ELSE buf1
             hits == {n \in 1..Len(seqs) : endsWith(buf2, seqs[n].sequence)}
             s1 == [st EXCEPT !.lastKeyTime[i] = st.now, !.sequenceBuffer[i] = buf2]
         IN  IF hits = {} THEN s1
             ELSE LET n == firstMatch(hits)
                  IN  invoke([s1 EXCEPT !.sequenceBuffer[i] = <<>>], i, "sequence",
                             seqs[n].id, seqs[n].handler)

(***************************************************************************)
(* Dispatch loop                                                           *)
(***************************************************************************)
\* a mutant of _shouldHandleEvent: no containment test
shouldHandleAnyEvent(st, i, e) == TRUE

\* Keymash._shouldHandleEvent.  e.target is a node, or "null"
shouldHandleEvent(st, i, e) ==
    IF st.target[i] = "window" THEN TRUE
    ELSE IF e.target = "null" THEN FALSE
    ELSE contains(st.target[i], e.target)

\* the hold mask of a set of held key names
holdMaskOf(keys) == UNION {GetMask(k, HOLD_OFFSET) : k \in keys}

preventDefault(st, i) == [st EXCEPT !.prevented = @ \cup {i}]

update(st, i, mask) ==
    IF st.onUpdate[i] THEN [st EXCEPT !.updates = Append(@, [inst |-> i, mask |-> mask])]
    ELSE st

\* the binding _handleKeyDown resolves for the chord: the exact entry, else
\* the catch-all entry with the same hold half; <<>> stands for undefined
resolve(l, holdMask, totalMask) ==
    IF totalMask \in DOMAIN l THEN <<l[totalMask]>>
    ELSE IF (holdMask \cup ANY_PRESS) \in DOMAIN l THEN <<l[holdMask \cup ANY_PRESS]>>
    ELSE <<>>

\* a mutant of the last step of _handleKeyDown: the key is added although a
\* handler deactivated the instance
addActiveKeyUnchecked(st, i, key) == [st EXCEPT !.activeKeys[i] = @ \cup {key}]

\* the last step of _handleKeyDown: the key joins the held keys only if the
\* instance is still active
addActiveKey(st, i, key) ==
    IF st.active[i] THEN [st EXCEPT !.activeKeys[i] = @ \cup {key}] ELSE st

\* a mutant of _handleKeyDown: the binding is looked up after the sequence
\* detector ran
handleKeyDownResolveLate(st, i, e) ==
    IF ~shouldHandleEvent(st, i, e) THEN st
    ELSE LET holdMask == holdMaskOf(st.activeKeys[i])
             pressMask == GetMask(e.key, PRESS_OFFSET)
             totalMask == holdMask \cup pressMask
             s1 == checkSequences(st, i, e.key)
             found == resolve(s1.lookup[i], holdMask, totalMask)
             binding == found[1]
         IN  IF e.key \in s1.activeKeys[i]
             THEN IF found # <<>> /\ binding.repeat
                  THEN invoke(preventDefault(s1, i), i, "binding", binding.id,
                              binding.handler)
                  ELSE s1
             ELSE LET s2 == update(s1, i, totalMask)
                      s3 == IF found = <<>> THEN s2
                            ELSE IF binding.delay > 0
                            THEN [preventDefault(s2, i) EXCEPT
                                    !.timers = Append(@, [inst |-> i, binding |-> binding,
                                                          due |-> st.now + binding.delay])]
                            ELSE invoke(preventDefault(s2, i), i, "binding", binding.id,
                                        binding.handler)
                  IN  addActiveKey(s3, i, e.key)

\* a mutant of _handleKeyDown: a key whose binding is delayed does not join
\* the held keys
handleKeyDownDelayBlocks(st, i, e) ==
    IF ~shouldHandleEvent(st, i, e) THEN st
    ELSE LET holdMask == holdMaskOf(st.activeKeys[i])
             pressMask == GetMask(e.key, PRESS_OFFSET)
             totalMask == holdMask \cup pressMask
             found == resolve(st.lookup[i], holdMask, totalMask)
             binding == found[1]
             s1 == checkSequences(st, i, e.key)
         IN  IF e.key \in s1.activeKeys[i]
             THEN IF found # <<>> /\ binding.repeat
                  THEN invoke(preventDefault(s1, i), i, "binding", binding.id,
                              binding.handler)
                  ELSE s1
             ELSE LET s2 == update(s1, i, totalMask)
                  IN  IF found = <<>> THEN addActiveKey(s2, i, e.key)
                      ELSE IF binding.delay > 0
                      THEN [preventDefault(s2, i) EXCEPT
                              !.timers = Append(@, [inst |-> i, binding |-> binding,
                                                    due |-> st.now + binding.delay])]
                      ELSE addActiveKey(invoke(preventDefault(s2, i), i, "binding",
                                               binding.id, binding.handler), i, e.key)

\* Keymash._handleKeyDown
handleKeyDown(st, i, e) ==
    IF ~shouldHandleEvent(st, i, e) THEN st
    ELSE LET holdMask == holdMaskOf(st.activeKeys[i])
             pressMask == GetMask(e.key, PRESS_OFFSET)
             totalMask == holdMask \cup pressMask
             found == resolve(st.lookup[i], holdMask, totalMask)
             binding == found[1]
             s1 == checkSequences(st, i, e.key)
         IN  IF e.key \in s1.activeKeys[i]
             THEN IF found # <<>> /\ binding.repeat
                  THEN invoke(preventDefault(s1, i), i, "binding", binding.id,
                              binding.handler)
                  ELSE s1
             ELSE LET s2 == update(s1, i, totalMask)
                      s3 == IF found = <<>> THEN s2
                            ELSE IF binding.delay > 0
                            THEN [preventDefault(s2, i) EXCEPT
                                    !.timers = Append(@, [inst |-> i, binding |-> binding,
                                                          due |-> st.now + binding.delay])]
                            ELSE invoke(preventDefault(s2, i), i, "binding", binding.id,
                                        binding.handler)
                  IN  addActiveKey(s3, i, e.key)

\* a mutant of _handleKeyUp: onUpdate gets the hold mask from before the key
\* was removed
handleKeyUpStaleMask(st, i, e) ==
    IF ~shouldHandleEvent(st, i, e) THEN st
    ELSE update([st EXCEPT !.activeKeys[i] = @ \ {e.key}], i, holdMaskOf(st.activeKeys[i]))

\* Keymash._handleKeyUp
handleKeyUp(st, i, e) ==
    IF ~shouldHandleEvent(st, i, e) THEN st
    ELSE LET s1 == [st EXCEPT !.activeKeys[i] = @ \ {e.key}]
         IN  update(s1, i, holdMaskOf(s1.activeKeys[i]))

\* a mutant of _handleBlur: the held keys and the buffer stay
handleBlurKeepState(st, i) == update(st, i, {})

\* Keymash._handleBlur
handleBlur(st, i) ==
    update([st EXCEPT !.activeKeys[i] = {}, !.sequenceBuffer[i] = <<>>], i, {})

\* the listener instance i attached for events of type e.type
handle(st, i, e) ==
    CASE e.type = "keydown" -> handleKeyDown(st, i, e)
      [] e.type = "keyup" -> handleKeyUp(st, i, e)
      [] e.type = "blur" -> handleBlur(st, i)

\* window.dispatchEvent: the listeners attached for the type when the
\* dispatch starts are called in attachment order; one removed by an earlier
\* listener of the same dispatch is skipped, one added during it is not called.
\* (A listener is identified by its instance and type: the handlers above
\* remove only the listeners of the instance they run on, so none is removed
\* and attached again before its turn.)
RECURSIVE dispatch(_, _, _)
dispatch(st, ls, e) ==
    IF ls = <<>> THEN st
    ELSE LET l == Head(ls)
             attached == \E n \in 1..Len(st.listeners) : st.listeners[n] = l
         IN  dispatch(IF attached THEN handle(st, l.inst, e) ELSE st, Tail(ls), e)

dispatchEvent(st, e) ==
    dispatch(st, SelectSeq(st.listeners, LAMBDA l : l.type = e.type), e)

(***************************************************************************)
(* keymash/core (keymash-core.ts): its own key tables, and its own class    *)
(* Keymash with the fields _t, _a, _k and _l.  A handler is the id of the  *)
(* binding it was bound with.                                              *)
(***************************************************************************)
H_OFF == 0
P_OFF == 256
ANY_P == {255 + P_OFF}

\* S: the special keys with fixed bit positions
coreS ==
    (N_ctrl :> 1) @@ (N_shift :> 2) @@ (N_alt :> 3) @@ (N_meta :> 4) @@
    (N_escape :> 7) @@ (N_enter :> 9) @@ (N_space :> 10) @@ (N_arrowup :> 20) @@
    (N_arrowdown :> 21) @@ (N_arrowleft :> 22) @@ (N_arrowright :> 23)

\* A: alias -> canonical key (up, down, left, right, space, control)
coreA ==
    (<<117, 112>> :> N_arrowup) @@ (<<100, 111, 119, 110>> :> N_arrowdown) @@
    (<<108, 101, 102, 116>> :> N_arrowleft) @@
    (<<114, 105, 103, 104, 116>> :> N_arrowright) @@
    (<<115, 112, 97, 99, 101>> :> N_space) @@
    (<<99, 111, 110, 116, 114, 111, 108>> :> N_ctrl)

\* the canonical name H, P and B compute first: lower case, then the alias
coreCanonical(k) ==
    LET l == toLowerCase(k)
    IN  IF l \in DOMAIN coreA THEN coreA[l] ELSE l

\* B: the bit position of a key
coreB(k) ==
    LET c == coreCanonical(k)
    IN  IF c \in DOMAIN coreS THEN coreS[c]
        ELSE IF Len(c) = 1 THEN c[1]
        ELSE (c[1] % 100) + 128

\* H and P: the masks behind hold.* and press.* (hc and pc only cache them)
coreH(k) ==
    LET c == coreCanonical(k)
    IN  IF c = N_any THEN {255} ELSE {coreB(c) + H_OFF}

coreP(k) ==
    LET c == coreCanonical(k)
    IN  IF c = N_any THEN ANY_P ELSE {coreB(c) + P_OFF}

\* X: the lookup keys of a combo, one per press bit
coreX(c) ==
    LET hm == {b \in c : b < 256}
        pm == {b - 256 : b \in {x \in c : x >= 256}}
    IN  IF pm = {} THEN {c} ELSE {hm \cup {i + 256} : i \in pm}

\* Keymash.bind of keymash/core
coreBind(co, c, h) ==
    [co EXCEPT !.l = [key \in DOMAIN co.l \cup coreX(c) |->
                         IF key \in coreX(c) THEN h ELSE co.l[key]]]

\* Keymash.unbind of keymash/core
coreUnbind(co, c) ==
    [co EXCEPT !.l = [key \in DOMAIN co.l \ coreX(c) |-> co.l[key]]]

\* Keymash.setActive of keymash/core
coreSetActive(co, v) ==
    IF co.a = v THEN co
    ELSE [co EXCEPT !.a = v, !.k = IF v THEN @ ELSE {}]

\* Keymash._d of keymash/core
coreD(co, e) ==
    IF co.t # "window" /\ ~contains(co.t, e.target) THEN co
    ELSE LET hm == UNION {coreH(k) : k \in co.k}
             tm == hm \cup coreP(e.key)
             anyKey == hm \cup ANY_P
         IN  IF e.key \in co.k THEN co
             ELSE LET s1 == IF tm \in DOMAIN co.l
                            THEN [co EXCEPT !.calls = Append(@, co.l[tm])]
                            ELSE IF anyKey \in DOMAIN co.l
                            THEN [co EXCEPT !.calls = Append(@, co.l[anyKey])]
                            ELSE co
                  IN  IF s1.a THEN [s1 EXCEPT !.k = @ \cup {e.key}] ELSE s1

\* Keymash._up of keymash/core
coreUp(co, e) == [co EXCEPT !.k = @ \ {e.key}]

\* the window calls the listeners of the keymash/core instance, which are
\* attached while it is active
coreDispatchEvent(st, e) ==
    IF ~st.core.a THEN st
    ELSE IF e.type = "keydown" THEN [st EXCEPT !.core = coreD(@, e)]
    ELSE IF e.type = "keyup" THEN [st EXCEPT !.core = coreUp(@, e)]
    ELSE st

(***************************************************************************)
(* Bounds of the model                                                     *)
(***************************************************************************)
MaxBindings == 2      \* bindings registered on one instance
MaxTyped == 2         \* characters in a sequence buffer
MaxSequences == 1     \* sequences registered on one instance
MaxSeqId == 2         \* calls of sequence() on one instance
MaxTicks == 1         \* times the clock advances
MaxTimers == 1        \* pending delayed handler calls

MaxTypedSeq == 3      \* characters in a buffer, where sequences are typed

DelayMs == 1000       \* the delay of the delayed binding

\* Date.now() when the page is loaded, and how far the clock advances at once:
\* one millisecond more than the default sequence timeout
StartTime == 2000
TickStep == DEFAULT_SEQUENCE_TIMEOUT + 1

(***************************************************************************)
(* Construction                                                            *)
(***************************************************************************)
\* the fields before any constructor ran
Blank(dev, scopes) ==
    [isDev |-> dev, target |-> scopes,
     bindings |-> [i \in Inst |-> <<>>],
     active |-> [i \in Inst |-> FALSE],
     activeKeys |-> [i \in Inst |-> {}],
     lookup |-> [i \in Inst |-> <<>>],
     changeListeners |-> [i \in Inst |-> <<>>],
     onUpdate |-> [i \in Inst |-> FALSE],
     sequences |-> [i \in Inst |-> <<>>],
     sequenceBuffer |-> [i \in Inst |-> <<>>],
     sequenceIdCounter |-> [i \in Inst |-> 0],
     lastKeyTime |-> [i \in Inst |-> 0],
     sequenceTimeout |-> [i \in Inst |-> DEFAULT_SEQUENCE_TIMEOUT],
     listeners |-> <<>>,
     targetRegistry |-> <<>>,
     timers |-> <<>>,
     now |-> StartTime,
     ev |-> [type |-> "create", inst |-> 0, key |-> <<>>, target |-> "null", combo |-> {},
             removed |-> 0, before |-> <<>>],
     calls |-> <<>>, prevented |-> {}, updates |-> <<>>, toggles |-> <<>>,
     changes |-> <<>>,
     core |-> [t |-> "window", a |-> FALSE, k |-> {}, l |-> <<>>, calls |-> <<>>]]

\* a mutant of the constructor: the instance is not activated
constructInactive(st, i, bs) == addBindings(st, i, bs).st

\* the Keymash constructor with config.bindings = bs: initial bindings are
\* added and, when there are any, the instance is activated
construct(st, i, bs) ==
    IF Len(bs) > 0
    THEN LET r == addBindings(st, i, bs)
         IN  IF r.thrown THEN r.st ELSE setActive(r.st, i, TRUE)
    ELSE st

\* the state after instance 1, then instance 2, were created
InitWith(devs, scopes, configs1, configs2) ==
    \E dev \in devs, sc \in scopes, c1 \in configs1, c2 \in configs2 :
        LET st == construct(construct(Blank(dev, sc), 1, c1), 2, c2)
        IN  /\ isDev = st.isDev
            /\ target = st.target
            /\ bindings = st.bindings
            /\ active = st.active
            /\ activeKeys = st.activeKeys
            /\ lookup = st.lookup
            /\ changeListeners = st.changeListeners
            /\ onUpdate = st.onUpdate
            /\ sequences = st.sequences
            /\ sequenceBuffer = st.sequenceBuffer
            /\ sequenceIdCounter = st.sequenceIdCounter
            /\ lastKeyTime = st.lastKeyTime
            /\ sequenceTimeout = st.sequenceTimeout
            /\ listeners = st.listeners
            /\ targetRegistry = st.targetRegistry
            /\ timers = st.timers
            /\ now = st.now
            /\ ev = st.ev
            /\ calls = st.calls
            /\ prevented = st.prevented
            /\ updates = st.updates
            /\ toggles = st.toggles
            /\ changes = st.changes
            /\ core = st.core

\* km.sequence(...) for every registration of the list regs, in order
RECURSIVE sequenceAll(_, _, _)
sequenceAll(st, i, regs) ==
    IF regs = <<>> THEN st
    ELSE sequenceAll(sequence(st, i, Head(regs).text, Head(regs).handler, Head(regs).opt),
                     i, Tail(regs))

\* the state is one of the set S
InitAs(S) ==
    \E st \in S :
        /\ isDev = st.isDev
        /\ target = st.target
        /\ bindings = st.bindings
        /\ active = st.active
        /\ activeKeys = st.activeKeys
        /\ lookup = st.lookup
        /\ changeListeners = st.changeListeners
        /\ onUpdate = st.onUpdate
        /\ sequences = st.sequences
        /\ sequenceBuffer = st.sequenceBuffer
        /\ sequenceIdCounter = st.sequenceIdCounter
        /\ lastKeyTime = st.lastKeyTime
        /\ sequenceTimeout = st.sequenceTimeout
        /\ listeners = st.listeners
        /\ targetRegistry = st.targetRegistry
        /\ timers = st.timers
        /\ now = st.now
        /\ ev = st.ev
        /\ calls = st.calls
        /\ prevented = st.prevented
        /\ updates = st.updates
        /\ toggles = st.toggles
        /\ changes = st.changes
        /\ core = st.core

(***************************************************************************)
(* Operations: the calls the application makes and the events the browser  *)
(* dispatches.  Each is one step; everything a handler does runs inside    *)
(* the step that invoked it.                                               *)
(***************************************************************************)
\* the record of an operation: what was called or dispatched, with which
\* arguments; for an unbind how many bindings it removed; for a blur the held
\* keys and the sequence buffers it found
Op(type, i, k, t) ==
    [type |-> type, inst |-> i, key |-> k, target |-> t, combo |-> {}, removed |-> 0,
     before |-> <<>>]

\* km.bind(b) or km.bind(b.combo, b.handler)
Bind(i, b) ==
    /\ Len(bindings[i]) < MaxBindings
    /\ Commit(bind(Begin([Op("bind", i, <<>>, "null") EXCEPT !.combo = b.combo]), i, <<b>>))

\* km.bind(bs) with an array; the record of the operation holds the array
BindArray(i, bs) ==
    /\ Len(bindings[i]) + Len(bs) <= MaxBindings
    /\ Commit(bind(Begin([Op("bindArray", i, <<>>, "null") EXCEPT !.before = bs]), i, bs))

\* km.bind(c) or km.bind(c, h), the shorthand
BindShorthand(i, c, h) ==
    /\ Len(bindings[i]) < MaxBindings
    /\ Commit(bindShorthand(Begin([Op("bindShorthand", i, <<>>, "null") EXCEPT !.combo = c]),
                            i, c, h))

\* km.unbind(c); the record of the operation says how many bindings it removed
Unbind(i, c) ==
    /\ LET st == unbind(Begin([Op("unbind", i, <<>>, "null") EXCEPT !.combo = c]), i, {c})
       IN  Commit([st EXCEPT !.ev.removed = Len(bindings[i]) - Len(st.bindings[i])])

\* km.setActive(v)
SetActive(i, v) ==
    /\ Commit(setActive(Begin(Op(IF v THEN "activate" ELSE "deactivate", i, <<>>, "null")),
                        i, v))

\* km.destroy()
Destroy(i) ==
    /\ Commit(destroy(Begin(Op("destroy", i, <<>>, "null")), i))

\* km.onChange(fn)
OnChange(i, fn) ==
    /\ \A n \in 1..Len(changeListeners[i]) : changeListeners[i][n] # fn
    /\ Commit([Begin(Op("onChange", i, <<>>, "null")) EXCEPT
                  !.changeListeners[i] = Append(@, fn)])

\* the function km.onChange(fn) returned
OffChange(i, fn) ==
    /\ \E n \in 1..Len(changeListeners[i]) : changeListeners[i][n] = fn
    /\ Commit([Begin(Op("offChange", i, <<>>, "null")) EXCEPT
                  !.changeListeners[i] = SelectSeq(@, LAMBDA f : f # fn)])

\* km.onUpdate(callback)
OnUpdate(i) ==
    /\ ~onUpdate[i]
    /\ Commit([Begin(Op("onUpdate", i, <<>>, "null")) EXCEPT !.onUpdate[i] = TRUE])

\* km.sequence(text, h) and km.sequence(text, h, { timeout: opt }); the record
\* of the operation holds the option
Sequence(i, text, h, opt) ==
    /\ Len(sequences[i]) < MaxSequences
    /\ sequenceIdCounter[i] < MaxSeqId
    /\ Commit(sequence(Begin([Op("sequence", i, text, "null") EXCEPT !.before = opt]),
                        i, text, h, opt))

\* the function km.sequence returned
Unsubscribe(i, id) ==
    /\ \E n \in 1..Len(sequences[i]) : sequences[i][n].id = id
    /\ Commit(unsubscribeSequence(Begin(Op("unsubscribe", i, <<>>, "null")), i, id))

\* a keydown event for key k on target t reaches the window (the bound on
\* pending timers does not hold back the keydown of a key that every active
\* instance holds: such a keydown is a repeat)
KeyDown(k, t) ==
    /\ Len(k) = 1 => \A i \in Inst : Len(sequenceBuffer[i]) < MaxTyped
    /\ Len(timers) < MaxTimers \/ \A i \in Inst : active[i] => k \in activeKeys[i]
    /\ LET e == Op("keydown", 0, k, t)
       IN  Commit(dispatchEvent(Begin(e), e))

\* a keyup event
KeyUp(k, t) ==
    /\ LET e == Op("keyup", 0, k, t)
       IN  Commit(dispatchEvent(Begin(e), e))

\* the window loses focus
Blur ==
    /\ LET e == [Op("blur", 0, <<>>, "null") EXCEPT
                    !.before = [keys |-> activeKeys, buffer |-> sequenceBuffer]]
       IN  Commit(dispatchEvent(Begin(e), e))

\* a keydown event where sequences are typed: the buffers may get longer
KeyDownTyped(k, t) ==
    /\ Len(k) = 1 => \A i \in Inst : Len(sequenceBuffer[i]) < MaxTypedSeq
    /\ Len(timers) < MaxTimers
    /\ LET e == Op("keydown", 0, k, t)
       IN  Commit(dispatchEvent(Begin(e), e))

\* d milliseconds pass
Wait(d) ==
    /\ now + d <= StartTime + MaxTicks * TickStep
    /\ Commit([Begin(Op("wait", 0, <<>>, "null")) EXCEPT !.now = @ + d])

\* a mutant of timeoutCallback: the handler is called only while its binding
\* is registered on an active instance
timeoutCallbackIfBound(st, t) ==
    IF st.active[t.inst] /\ \E n \in 1..Len(st.bindings[t.inst]) : st.bindings[t.inst][n] = t.binding
    THEN invoke(st, t.inst, "binding", t.binding.id, t.binding.handler)
    ELSE st

\* the callback given to setTimeout: () => binding.handler(e, this)
timeoutCallback(st, t) == invoke(st, t.inst, "binding", t.binding.id, t.binding.handler)

\* a timer set by a delayed binding fires: its callback is called
TimerFire(n) ==
    /\ n \in 1..Len(timers)
    /\ timers[n].due <= now
    /\ LET t == timers[n]
           s0 == [Begin(Op("timer", t.inst, <<>>, "null")) EXCEPT
                     !.timers = SubSeq(@, 1, n - 1) \o SubSeq(@, n + 1, Len(@))]
       IN  Commit(timeoutCallback(s0, t))

(***************************************************************************)
(* The bindings, keys and targets the specifications draw from             *)
(***************************************************************************)
Binding(id, combo, h, rep, delay) ==
    [id |-> id, combo |-> combo, handler |-> h, repeat |-> rep, delay |-> delay]

\* ctrl + press.s
B_ctrlS == Binding(1, hold(N_ctrl) \cup press(K_s), "noop", FALSE, 0)
\* ctrl + (press.a | press.b)
B_ctrlAB == Binding(2, hold(N_ctrl) \cup (press(K_a) \cup press(K_b)), "noop", FALSE, 0)
\* hold.s + (press.a | press.b)
B_sAB == Binding(3, hold(K_s) \cup (press(K_a) \cup press(K_b)), "noop", FALSE, 0)
\* ctrl + press.any
B_ctrlAny == Binding(4, hold(N_ctrl) \cup ANY_PRESS, "noop", FALSE, 0)
\* { combo: press.a, repeat: true }
B_aRepeat == Binding(5, press(K_a), "noop", TRUE, 0)
\* press.s, whose handler hands over to the other instance
B_sHandoff == Binding(6, press(K_s), "handoff", FALSE, 0)
\* hold.s + press.any
B_sAny == Binding(7, hold(K_s) \cup ANY_PRESS, "noop", FALSE, 0)
\* press.b, whose handler deactivates its instance
B_bOff == Binding(8, press(K_b), "deactivate", FALSE, 0)
\* press.a
B_a == Binding(9, press(K_a), "noop", FALSE, 0)
\* hold.s + press.a
B_sA == Binding(10, hold(K_s) \cup press(K_a), "noop", FALSE, 0)
\* press.any
B_any == Binding(11, ANY_PRESS, "noop", FALSE, 0)
\* hold.s, a combo without a press key
B_sOnly == Binding(12, hold(K_s), "noop", FALSE, 0)
\* { combo: press.a, delay: DelayMs }
B_aDelayed == Binding(13, press(K_a), "noop", FALSE, DelayMs)

Keys == {K_Control, K_a, K_b, K_s}
EventTargets == {"E", "inE", "out"}
WindowOnly == {[i \in Inst |-> "window"]}
WindowAndE == {(1 :> "window") @@ (2 :> "E")}

(***************************************************************************)
(* Spec: chords on one window-scoped instance.  Bindings with a modifier   *)
(* hold half and with a letter hold half, OR-ed alternatives, a catch-all  *)
(* and a repeating binding are bound and unbound while keys go down and up *)
(***************************************************************************)
Catalog == {B_ctrlS, B_ctrlAB, B_sAB, B_ctrlAny, B_aRepeat}

Init == InitWith(BOOLEAN, WindowOnly, {<<>>}, {<<>>})

Next ==
    \/ \E b \in Catalog : Bind(1, b)
    \/ \E b \in Catalog : Unbind(1, b.combo)
    \/ \E v \in BOOLEAN : SetActive(1, v)
    \/ \E k \in Keys : KeyDown(k, "out")
    \/ \E k \in Keys : KeyUp(k, "out")
    \/ Blur

Spec == Init /\ [][Next]_vars

(***************************************************************************)
(* SpecUnbind: binding and unbinding on one window-scoped instance.  A     *)
(* binding with two alternative press keys and one that shares a lookup    *)
(* key with it are bound (in production mode also twice, or one over the   *)
(* other) and unbound while the keys of their chords go down and up and    *)
(* two onChange listeners subscribe and unsubscribe                        *)
(***************************************************************************)
UnbindCatalog == {B_sAB, B_sA}
UnbindKeys == {K_s, K_a, K_b}

InitUnbind == InitWith(BOOLEAN, WindowOnly, {<<>>}, {<<>>})

NextUnbind ==
    \/ \E b \in UnbindCatalog : Bind(1, b)
    \/ \E b1 \in UnbindCatalog, b2 \in UnbindCatalog : BindArray(1, <<b1, b2>>)
    \/ \E b \in UnbindCatalog : Unbind(1, b.combo)
    \/ \E fn \in {"fn", "gn"} : OnChange(1, fn)
    \/ \E fn \in {"fn", "gn"} : OffChange(1, fn)
    \/ \E v \in BOOLEAN : SetActive(1, v)
    \/ \E k \in UnbindKeys : KeyDown(k, "out")
    \/ \E k \in UnbindKeys : KeyUp(k, "out")
    \/ Blur

SpecUnbind == InitUnbind /\ [][NextUnbind]_vars

(***************************************************************************)
(* SpecTrap: the lookup map of one window-scoped instance.  A binding with *)
(* two alternative press keys, one that shares a lookup key with it, a     *)
(* catch-all and a binding without a press key are bound, in any order and *)
(* (in production mode) one over the other, and unbound while the keys s   *)
(* and a go down and up.  The instance is created without bindings, or     *)
(* with one; a sequence is registered                                      *)
(***************************************************************************)
T_ab == <<97, 98>>

TrapCatalog == {B_sAB, B_sA, B_any, B_sOnly}

InitTrap == InitWith(BOOLEAN, WindowOnly, {<<>>, <<B_sAB>>}, {<<>>})

NextTrap ==
    \/ \E b \in TrapCatalog : Bind(1, b)
    \/ \E b \in TrapCatalog : Unbind(1, b.combo)
    \/ Sequence(1, T_ab, "noop", -1)
    \/ \E v \in BOOLEAN : SetActive(1, v)
    \/ \E k \in {K_s, K_a} : KeyDown(k, "out")
    \/ \E k \in {K_s, K_a} : KeyUp(k, "out")
    \/ Blur

SpecTrap == InitTrap /\ [][NextTrap]_vars

(***************************************************************************)
(* SpecSeq: typed sequences on one window-scoped instance.  The instance   *)
(* is created, sequences are registered (one alone, one with a suffix or a *)
(* prefix of it, a duplicate, one with a timeout option) and the instance  *)
(* is activated; then characters and the Control key go down and up, time  *)
(* passes, the window loses focus and the instance is switched off and on  *)
(***************************************************************************)
ShortTimeout == 500

Reg(text, opt) == [text |-> text, handler |-> "noop", opt |-> opt]

SeqConfigs ==
    {<<Reg(T_ab, -1)>>, <<Reg(T_ab, -1), Reg(K_b, -1)>>, <<Reg(K_b, -1), Reg(T_ab, -1)>>,
     <<Reg(K_a, -1), Reg(T_ab, -1)>>, <<Reg(T_ab, -1), Reg(T_ab, -1)>>,
     <<Reg(T_ab, ShortTimeout)>>}

\* the characters a and b and the Control key go down and up; the gaps
\* between keydowns are the instance's timeout, and one millisecond more
InitSeq ==
    InitAs({setActive(sequenceAll(Blank(dev, sc), 1, regs), 1, TRUE) :
                dev \in BOOLEAN, sc \in WindowOnly, regs \in SeqConfigs})

NextSeq ==
    \/ \E k \in {K_a, K_b, K_Control} : KeyDownTyped(k, "out")
    \/ \E k \in {K_a, K_b, K_Control} : KeyUp(k, "out")
    \/ \E d \in {sequenceTimeout[1], sequenceTimeout[1] + 1} : Wait(d)
    \/ \E v \in BOOLEAN : SetActive(1, v)
    \/ Blur

SpecSeq == InitSeq /\ [][NextSeq]_vars

(***************************************************************************)
(* SpecDown: taking an instance down.  One window-scoped instance is       *)
(* created with a delayed binding (so it is active); subscribers and a     *)
(* sequence are registered, the key of the binding goes down and up, the   *)
(* delay passes and timers fire, while the binding is unbound, bind() is   *)
(* called without a handler and the instance is switched off and on and    *)
(* destroyed                                                               *)
(***************************************************************************)
InitDown == InitWith({FALSE}, WindowOnly, {<<B_aDelayed>>}, {<<>>})

NextDown ==
    \/ OnChange(1, "fn")
    \/ OnUpdate(1)
    \/ Sequence(1, T_ab, "noop", -1)
    \/ \E v \in BOOLEAN : SetActive(1, v)
    \/ Destroy(1)
    \/ Unbind(1, B_aDelayed.combo)
    \/ BindShorthand(1, B_aDelayed.combo, "undefined")
    \/ KeyDown(K_a, "out")
    \/ KeyUp(K_a, "out")
    \/ Blur
    \/ Wait(DelayMs)
    \/ \E n \in 1..MaxTimers : TimerFire(n)

SpecDown == InitDown /\ [][NextDown]_vars

(***************************************************************************)
(* SpecScope: a window-scoped instance and an instance scoped to element E *)
(* on the same page, both created with bindings (and so active).  Keys go  *)
(* down and up on targets inside and outside E, the window loses focus,    *)
(* visualizer callbacks are set and the scoped instance is switched        *)
(***************************************************************************)
ScopeKeys == {K_s, K_a}

InitScope == InitWith(BOOLEAN, WindowAndE, {<<B_sAB>>}, {<<B_a>>})

NextScope ==
    \/ \E i \in Inst : OnUpdate(i)
    \/ \E v \in BOOLEAN : SetActive(2, v)
    \/ \E k \in ScopeKeys, t \in EventTargets : KeyDown(k, t)
    \/ \E k \in ScopeKeys, t \in EventTargets : KeyUp(k, t)
    \/ Blur

SpecScope == InitScope /\ [][NextScope]_vars

(***************************************************************************)
(* SpecLife: the activation life cycle of two window-scoped instances.     *)
(* Instance 1 is created with hold.s + press.any and a press.b binding     *)
(* that deactivates it, instance 2 with a press.s binding that hands over  *)
(* to instance 1; the sequence "ss" whose handler hands over to instance 2 *)
(* is registered on instance 1, a listener subscribes to its changes, and  *)
(* the application activates, deactivates and destroys the instances       *)
(***************************************************************************)
LifeKeys == {K_s, K_b}
T_ss == <<115, 115>>

InitLife == InitWith({FALSE}, WindowOnly, {<<B_sAny, B_bOff>>}, {<<B_sHandoff>>})

NextLife ==
    \/ \E i \in Inst, v \in BOOLEAN : SetActive(i, v)
    \/ \E i \in Inst : Destroy(i)
    \/ OnChange(1, "fn")
    \/ Sequence(1, T_ss, "handoff", -1)
    \/ \E k \in LifeKeys : KeyDown(k, "out")
    \/ \E k \in LifeKeys : KeyUp(k, "out")
    \/ Blur

SpecLife == InitLife /\ [][NextLife]_vars

(***************************************************************************)
(* SpecMix: a binding and a sequence that end on the same key.  One        *)
(* window-scoped instance is created with press.a; the sequence "ba" is    *)
(* registered with a handler that does nothing, deactivates the instance   *)
(* or unbinds press.a, with or without a timeout option, and unsubscribed; *)
(* the keys a and b go down and up, time passes and the instance is        *)
(* switched on again                                                       *)
(***************************************************************************)
T_ba == <<98, 97>>

InitMix == InitWith({FALSE}, WindowOnly, {<<B_a>>}, {<<>>})

NextMix ==
    \/ \E h \in {"noop", "deactivate", "unbind"} : Sequence(1, T_ba, h, -1)
    \/ Sequence(1, T_ba, "noop", ShortTimeout)
    \/ \E id \in 1..MaxSeqId : Unsubscribe(1, id)
    \/ SetActive(1, TRUE)
    \/ \E k \in {K_a, K_b} : KeyDown(k, "out")
    \/ \E k \in {K_a, K_b} : KeyUp(k, "out")
    \/ Wait(ShortTimeout + 1)

SpecMix == InitMix /\ [][NextMix]_vars

(***************************************************************************)
(* SpecKeys: chords written with + from the exported tables.  The          *)
(* application binds hold[h1] + hold[h2] + press[p] for hold names and a   *)
(* press name of the tables; the id of such a binding is the names it was  *)
(* written with.  The key typed is one the tables do not hold.             *)
(***************************************************************************)
\* U+00FF, as KeyboardEvent.key reports it
K_yuml == <<255>>

\* hold[h] + ... + press[p], for at most two of the hold names ctrl, alt and
\* a, and the press name F1 or F2
Chords ==
    LET HoldNames == {N_ctrl, N_alt, K_a}
        PressNames == {<<70, 49>>, <<70, 50>>}
        RECURSIVE sum(_)
        sum(hs) == IF hs = {} THEN {}
                   ELSE LET h == CHOOSE x \in hs : TRUE
                        IN  plus(hold(h), sum(hs \ {h}))
    IN  {Binding([holds |-> hs, press |-> p], plus(sum(hs), press(p)), "noop", FALSE, 0) :
            hs \in {x \in SUBSET HoldNames : Cardinality(x) <= 2}, p \in PressNames}

InitKeys == InitWith({FALSE}, WindowOnly, {<<>>}, {<<>>})

NextKeys ==
    \/ \E b \in Chords : Bind(1, b)
    \/ \E v \in BOOLEAN : SetActive(1, v)
    \/ KeyDown(K_yuml, "out")
    \/ KeyUp(K_yuml, "out")

SpecKeys == InitKeys /\ [][NextKeys]_vars

(***************************************************************************)
(* SpecChord: chords with function keys held.  One window-scoped instance  *)
(* is created with a binding for 'a' pressed while F1 is held and a        *)
(* catch-all for any key pressed while F1 is held; the id of a binding     *)
(* records the key names its combo was written with.  F1, F2, 'a' and 'b'  *)
(* go down and up, and the window loses focus.                             *)
(***************************************************************************)
K_F1 == <<70, 49>>
K_F2 == <<70, 50>>

B_F1a == Binding([holds |-> {K_F1}, press |-> K_a], plus(hold(K_F1), press(K_a)),
                 "noop", FALSE, 0)
B_F1Any == Binding([holds |-> {K_F1}, press |-> <<>>], plus(hold(K_F1), ANY_PRESS),
                   "noop", FALSE, 0)

InitChord == InitWith({FALSE}, WindowOnly, {<<B_F1a, B_F1Any>>}, {<<>>})

NextChord ==
    \/ \E k \in {K_F1, K_F2, K_a, K_b} : KeyDown(k, "out")
    \/ \E k \in {K_F1, K_F2, K_a, K_b} : KeyUp(k, "out")
    \/ Blur

SpecChord == InitChord /\ [][NextChord]_vars

(***************************************************************************)
(* SpecLong: a long text is typed.  One window-scoped instance without     *)
(* bindings is switched on; a sequence one character longer than the       *)
(* margin of the buffer ('b' followed by 'a's) is registered and           *)
(* unsubscribed, and 'a' and 'b' go down, 'b' only as the first character  *)
(* of a buffer.  No key comes up:                                          *)
(* the further keydowns of a held key are repeats, which reach the         *)
(* sequence detector all the same.  No time passes.                        *)
(***************************************************************************)
MaxTypedLong == 60    \* characters in the buffer, where a long text is typed

T_long == K_b \o [n \in 1..BUFFER_MARGIN |-> 97]

\* a keydown event where a long text is typed; the record of the operation
\* holds the buffer of instance 1 before it
KeyDownLong(k, t) ==
    /\ Len(sequenceBuffer[1]) < MaxTypedLong
    /\ LET e == [Op("keydown", 0, k, t) EXCEPT !.before = sequenceBuffer[1]]
       IN  Commit(dispatchEvent(Begin(e), e))

InitLong == InitWith({FALSE}, WindowOnly, {<<>>}, {<<>>})

NextLong ==
    \/ SetActive(1, TRUE)
    \/ Sequence(1, T_long, "noop", -1)
    \/ \E id \in 1..MaxSeqId : Unsubscribe(1, id)
    \/ KeyDownLong(K_a, "out")
    \/ sequenceBuffer[1] = <<>> /\ KeyDownLong(K_b, "out")

SpecLong == InitLong /\ [][NextLong]_vars

(***************************************************************************)
(* SpecCore: the two entry points side by side.  A window-scoped instance  *)
(* of the full keymash (instance 1, created without bindings) and one of   *)
(* keymash/core get the same calls of bind, unbind and setActive, each     *)
(* combo built from the entry point's own hold and press tables for the    *)
(* same key names, and the same keydown and keyup events.                  *)
(***************************************************************************)
\* the combos, by the names they are written with: ctrl + press.s,
\* press.a, and press.a | press.s
CoreCatalog ==
    {[id |-> 1, holds |-> {N_ctrl}, presses |-> {K_s}],
     [id |-> 2, holds |-> {}, presses |-> {K_a}],
     [id |-> 3, holds |-> {}, presses |-> {K_a, K_s}]}

fullCombo(c) == plus(UNION {hold(n) : n \in c.holds}, UNION {press(n) : n \in c.presses})
coreCombo(c) == plus(UNION {coreH(n) : n \in c.holds}, UNION {coreP(n) : n \in c.presses})

BothBind(c) ==
    /\ Len(bindings[1]) < MaxBindings
    /\ LET e == [Op("bind", 1, <<>>, "null") EXCEPT !.combo = fullCombo(c)]
           b == Binding(c.id, fullCombo(c), "noop", FALSE, 0)
       IN  Commit([bind(Begin(e), 1, <<b>>) EXCEPT !.core = coreBind(@, coreCombo(c), c.id)])

BothUnbind(c) ==
    /\ LET e == [Op("unbind", 1, <<>>, "null") EXCEPT !.combo = fullCombo(c)]
       IN  Commit([unbind(Begin(e), 1, {fullCombo(c)}) EXCEPT
                      !.core = coreUnbind(@, coreCombo(c))])

BothSetActive(v) ==
    /\ LET e == Op(IF v THEN "activate" ELSE "deactivate", 1, <<>>, "null")
       IN  Commit([setActive(Begin(e), 1, v) EXCEPT !.core = coreSetActive(@, v)])

BothKey(type, k) ==
    /\ (type = "keydown" /\ Len(k) = 1) => Len(sequenceBuffer[1]) < MaxTyped
    /\ LET e == Op(type, 0, k, "out")
       IN  Commit(coreDispatchEvent(dispatchEvent(Begin(e), e), e))

InitCore == InitWith({FALSE}, WindowOnly, {<<>>}, {<<>>})

NextCore ==
    \/ \E c \in CoreCatalog : BothBind(c)
    \/ \E c \in CoreCatalog : BothUnbind(c)
    \/ \E v \in BOOLEAN : BothSetActive(v)
    \/ \E k \in {K_Control, K_a, K_s} : BothKey("keydown", k)
    \/ \E k \in {K_Control, K_a, K_s} : BothKey("keyup", k)

SpecCore == InitCore /\ [][NextCore]_vars

(***************************************************************************)
(* What the claims speak of                                                *)
(***************************************************************************)
\* the name the browser reports in KeyboardEvent.key for the key a table
\* name stands for
BrowserKey(n) == IF n = N_ctrl THEN K_Control ELSE n

TableKeys == {N_ctrl, K_a, K_b, K_s}

\* the physical keys of a hold half, and those of a press half, as the
\* browser names them
HeldFor(combo) == {BrowserKey(n) : n \in {m \in TableKeys : hold(m) \subseteq combo}}
PressedFor(combo) == {BrowserKey(n) : n \in {m \in TableKeys : press(m) \subseteq combo}}

\* the bindings of a list, as a set
Bound(bs) == {bs[n] : n \in 1..Len(bs)}

\* how often the last operation made instance i call the handler of binding b
CallCount(cs, i, b) ==
    Cardinality({n \in 1..Len(cs) : cs[n] = [inst |-> i, kind |-> "binding", id |-> b.id]})

\* the binding handlers instance i called in the last operation, in order
BindingCalls(cs, i) == SelectSeq(cs, LAMBDA c : c.inst = i /\ c.kind = "binding")

BindingCall(i, b) == [inst |-> i, kind |-> "binding", id |-> b.id]

\* C1: with the binding ctrl + press.s on the active window-scoped instance,
\* keydown 'Control' followed at once by keydown 's' invokes the handler of
\* that binding exactly once and prevents the default of the 's' keydown.
C1_CtrlSFires ==
    [][(/\ ev.type = "keydown" /\ ev.key = K_Control
        /\ activeKeys[1] = {K_Control}
        /\ active[1] /\ target[1] = "window"
        /\ Bound(bindings[1]) = {B_ctrlS}
        /\ ev'.type = "keydown" /\ ev'.key = K_s)
       => (CallCount(calls', 1, B_ctrlS) = 1 /\ 1 \in prevented')]_vars

\* C2: when the only binding is b, with two or more press bits, and exactly
\* the keys of its hold half are held, a first-press keydown of any of its
\* alternative keys invokes the handler of b (once), and a first-press
\* keydown of any other key invokes no binding handler.
C2_AlternativesResolve ==
    [][\A b \in Bound(bindings[1]) :
        (/\ Cardinality(b.combo \cap PRESS_RANGE_MASK) >= 2
         /\ Bound(bindings[1]) = {b}
         /\ active[1]
         /\ activeKeys[1] = HeldFor(b.combo)
         /\ ev'.type = "keydown" /\ ev'.key \notin activeKeys[1])
        => IF ev'.key \in PressedFor(b.combo)
           THEN BindingCalls(calls', 1) = <<BindingCall(1, b)>>
           ELSE BindingCalls(calls', 1) = <<>>]_vars

\* every binding object of the specifications
AllBindings ==
    {B_ctrlS, B_ctrlAB, B_sAB, B_ctrlAny, B_aRepeat, B_sHandoff, B_sAny, B_bOff, B_a, B_sA,
     B_any, B_sOnly, B_aDelayed}

\* C3: unbind(c) of the combo of a registered binding b leaves no exploded
\* lookup key of c resolving to b, and while b is not in the bindings list
\* no keydown invokes its handler.
C3_UnbindRemovesAll ==
    [][\A i \in Inst : \A b \in AllBindings :
        /\ (ev'.type = "unbind" /\ ev'.inst = i /\ ev'.combo = b.combo
                /\ b \in Bound(bindings[i]))
           => \A k \in explodeBinding(b.combo) :
                 k \in DOMAIN lookup'[i] => lookup'[i][k] # b
        /\ (ev'.type = "keydown" /\ b \notin Bound(bindings[i]))
           => CallCount(calls', i, b) = 0]_vars

\* C3 witness: the binding with two press bits was unbound while the key of
\* its hold half was held on the active instance; the binding that shares a
\* lookup key with it stays and is the only entry of the map
C3_Witness ==
    /\ ev.type = "unbind" /\ ev.removed = 1 /\ ev.combo = B_sAB.combo
    /\ active[1] /\ activeKeys[1] = {K_s}
    /\ bindings[1] = <<B_sA>>
    /\ DOMAIN lookup[1] = {B_sA.combo}

\* C4: with an exact binding b1 and a catch-all b2 of the same hold half H
\* registered, and exactly the keys of H held, a first-press keydown of a key
\* of b1 invokes only the handler of b1, and a first-press keydown of any
\* other key invokes only the handler of b2.
C4_CatchAllPrecedence ==
    [][\A b1, b2 \in Bound(bindings[1]) :
        (/\ ANY_PRESS \subseteq b2.combo
         /\ ~(ANY_PRESS \subseteq b1.combo)
         /\ b1.combo \cap HOLD_RANGE_MASK = b2.combo \cap HOLD_RANGE_MASK
         /\ Bound(bindings[1]) = {b1, b2}
         /\ active[1]
         /\ activeKeys[1] = HeldFor(b1.combo)
         /\ ev'.type = "keydown" /\ ev'.key \notin activeKeys[1])
        => IF ev'.key \in PressedFor(b1.combo)
           THEN BindingCalls(calls', 1) = <<BindingCall(1, b1)>>
           ELSE BindingCalls(calls', 1) = <<BindingCall(1, b2)>>]_vars

\* C5: while key k is in the held set of an instance (a first press of k was
\* processed and no keyup of k, blur or deactivation came since), a keydown
\* of k makes the instance invoke no handler of a binding without repeat.
C5_NoRepeatFire ==
    [][\A i \in Inst :
        (ev'.type = "keydown" /\ ev'.key \in activeKeys[i])
        => \A n \in 1..Len(calls') :
              (calls'[n].inst = i /\ calls'[n].kind = "binding")
              => \E b \in Bound(bindings[i]) : b.id = calls'[n].id /\ b.repeat]_vars

\* C6: with { combo: press.a, repeat: true } bound on the active instance,
\* the keydown of 'a' with no key held invokes the handler, and so does
\* every keydown of 'a' that arrives while 'a' is the held key.
C6_RepeatFires ==
    [][(/\ active[1]
        /\ Bound(bindings[1]) = {B_aRepeat}
        /\ activeKeys[1] \in {{}, {K_a}}
        /\ ev'.type = "keydown" /\ ev'.key = K_a)
       => BindingCalls(calls', 1) = <<BindingCall(1, B_aRepeat)>>]_vars

\* the notifications of a log that instance i sent
SentBy(log, i) == SelectSeq(log, LAMBDA x : x.inst = i)

\* C7: a keydown whose target is neither E nor a descendant of E makes the
\* instance scoped to E invoke no handler, prevent no default, change neither
\* its held keys nor its sequence buffer and send no onUpdate; an active
\* window-scoped instance takes a first-press keydown from every target: the
\* key joins its held keys and its buffer and onUpdate gets the chord.
C7_ScopeFilter ==
    [][\A i \in Inst :
        ev'.type = "keydown" =>
          /\ (target[i] = "E" /\ ev'.target \notin {"E", "inE"})
             => /\ SentBy(calls', i) = <<>>
                /\ i \notin prevented'
                /\ activeKeys'[i] = activeKeys[i]
                /\ sequenceBuffer'[i] = sequenceBuffer[i]
                /\ lastKeyTime'[i] = lastKeyTime[i]
                /\ SentBy(updates', i) = <<>>
          /\ (target[i] = "window" /\ active[i] /\ ev'.key \notin activeKeys[i])
             => /\ activeKeys'[i] = activeKeys[i] \cup {ev'.key}
                /\ sequenceBuffer'[i] = sequenceBuffer[i] \o toLowerCase(ev'.key)
                /\ onUpdate[i] =>
                      SentBy(updates', i) =
                        <<[inst |-> i,
                           mask |-> holdMaskOf(activeKeys[i]) \cup press(ev'.key)]>>]_vars

\* C7 witness: 'a' went down outside E while the instance scoped to E was
\* active with press.a bound and a visualizer callback set; the window-scoped
\* instance took the key
C7_Witness ==
    /\ ev.type = "keydown" /\ ev.key = K_a /\ ev.target = "out"
    /\ target[2] = "E" /\ active[2] /\ onUpdate[2]
    /\ press(K_a) \in DOMAIN lookup[2]
    /\ activeKeys[2] = {}
    /\ K_a \in activeKeys[1]

\* C8: a blur empties the held keys and the sequence buffer of every active
\* instance, whatever its scope, and sends its onUpdate the mask 0; in the
\* keydown that follows the blur every chord sent to onUpdate and every
\* binding invoked has an empty hold half.
C8_BlurClears ==
    [][/\ ev'.type = "blur" =>
            \A i \in Inst : active[i] =>
                /\ activeKeys'[i] = {}
                /\ sequenceBuffer'[i] = <<>>
                /\ onUpdate[i] => SentBy(updates', i) = <<[inst |-> i, mask |-> {}]>>
       /\ (ev.type = "blur" /\ ev'.type = "keydown") =>
            /\ \A n \in 1..Len(updates') : updates'[n].mask \cap HOLD_RANGE_MASK = {}
            /\ \A n \in 1..Len(calls') :
                  \A b \in Bound(bindings[calls'[n].inst]) :
                     b.id = calls'[n].id => b.combo \cap HOLD_RANGE_MASK = {}]_vars

\* C8 witness: the window lost focus while both instances held keys and the
\* scoped one had typed characters in its buffer; both were notified
C8_Witness ==
    /\ ev.type = "blur"
    /\ ev.before.keys[1] # {} /\ ev.before.keys[2] # {}
    /\ ev.before.buffer[2] # <<>>
    /\ Len(updates) = 2

\* how often the listener of instance i for events of the type is attached
Attached(i, type) ==
    Cardinality({n \in 1..Len(listeners) : listeners[n] = [inst |-> i, type |-> type]})

\* the scope targets under which the registry lists instance i
RegisteredUnder(i) ==
    {t \in DOMAIN targetRegistry :
        \E n \in 1..Len(targetRegistry[t]) : targetRegistry[t][n] = i}

ActivationInv ==
    \A i \in Inst :
        IF active[i]
        THEN /\ \A type \in {"keydown", "keyup", "blur"} : Attached(i, type) = 1
             /\ RegisteredUnder(i) = {target[i]}
        ELSE /\ \A type \in {"keydown", "keyup", "blur"} : Attached(i, type) = 0
             /\ RegisteredUnder(i) = {}

\* C9: always, an instance is active iff exactly one keydown, one keyup and
\* one blur listener of it are attached and the registry lists it under its
\* scope, and an inactive one has no listener and no registry entry; and
\* setActive(v) with v the current value changes no field of any instance,
\* no listener and no registry entry, and notifies no onChange subscriber.
C9_Activation ==
    /\ []ActivationInv
    /\ [][\A i \in Inst :
            (/\ ev'.type \in {"activate", "deactivate"} /\ ev'.inst = i
             /\ active[i] = (ev'.type = "activate"))
            => /\ changes' = <<>> /\ toggles' = <<>>
               /\ UNCHANGED <<target, bindings, active, activeKeys, lookup,
                              changeListeners, onUpdate, sequences, sequenceBuffer,
                              sequenceIdCounter, lastKeyTime, sequenceTimeout,
                              listeners, targetRegistry, timers>>]_vars

\* C9 witness: setActive(true) was called on an instance that was active and
\* has an onChange subscriber, while the other instance was inactive
C9_Witness ==
    /\ ev.type = "activate" /\ toggles = <<>>
    /\ active[ev.inst] /\ changeListeners[ev.inst] # <<>>
    /\ ~active[Other(ev.inst)]

\* C10: always, an inactive instance has no held key.
C10_NoPhantomKeys == \A i \in Inst : ~active[i] => activeKeys[i] = {}

\* C10 witness: during a keydown a handler of an instance deactivated that
\* instance, and the key of the keydown is not among its held keys
C10_Witness ==
    /\ ev.type = "keydown"
    /\ \E i \in Inst :
          /\ SentBy(calls, i) # <<>>
          /\ SentBy(toggles, i) = <<[inst |-> i, active |-> FALSE]>>
          /\ ~active[i] /\ ev.key \notin activeKeys[i]

\* the handlers of sequences instance i called in the last operation
SequenceCalls(cs, i) == SelectSeq(cs, LAMBDA c : c.inst = i /\ c.kind = "sequence")

SequenceCall(i, q) == [inst |-> i, kind |-> "sequence", id |-> q.id]

\* the sequences registered on instance i, as a set
Sequences(i) == {sequences[i][n] : n \in 1..Len(sequences[i])}

\* the text buf ends with the text s
IsSuffix(s, buf) == \E n \in 0..Len(buf) : SubSeq(buf, n + 1, Len(buf)) = s

\* the characters instance 1 has seen without an idle gap, a match or a blur,
\* once key goes down at the time t
TypedWith(key, t) ==
    (IF t - lastKeyTime[1] <= sequenceTimeout[1] THEN sequenceBuffer[1] ELSE <<>>)
        \o toLowerCase(key)

C13_TimeoutResets ==
    [][IF active[1] /\ ev'.type = "keydown" /\ isSequenceKey(ev'.key)
       THEN LET c == toLowerCase(ev'.key)
                gap == now' - lastKeyTime[1]
                fired == SequenceCalls(calls', 1)
            IN  /\ lastKeyTime'[1] = now'
                /\ gap > sequenceTimeout[1] =>
                      /\ sequenceBuffer'[1] = (IF fired = <<>> THEN c ELSE <<>>)
                      /\ \A q \in Sequences(1) :
                            SequenceCall(1, q) \in {fired[n] : n \in 1..Len(fired)}
                            => q.sequence = c
                /\ gap <= sequenceTimeout[1] =>
                      /\ fired = <<>> => sequenceBuffer'[1] = sequenceBuffer[1] \o c
                      /\ (\E q \in Sequences(1) : IsSuffix(q.sequence, sequenceBuffer[1] \o c))
                         => fired # <<>>
       ELSE lastKeyTime'[1] = lastKeyTime[1]]_vars

\* C13 witness: only "ab" is registered; 'a' is still down, more than the
\* timeout has passed since the page was loaded, and the keydown of 'b'
\* matched nothing and left the buffer "b"
C13_Witness ==
    /\ ev.type = "keydown" /\ ev.key = K_b /\ active[1]
    /\ \E q \in Sequences(1) : Sequences(1) = {q} /\ q.sequence = T_ab
    /\ K_a \in activeKeys[1]
    /\ now - StartTime > sequenceTimeout[1]
    /\ calls = <<>>
    /\ sequenceBuffer[1] = K_b

\* C14: a keydown of a key whose name has more than one character leaves
\* the sequence buffer and the time of the last character unchanged and
\* invokes no sequence handler.
C14_NamedKeysIgnored ==
    [][(ev'.type = "keydown" /\ Len(ev'.key) > 1)
       => /\ sequenceBuffer' = sequenceBuffer
          /\ lastKeyTime' = lastKeyTime
          /\ \A i \in Inst : SequenceCalls(calls', i) = <<>>]_vars

\* C14 witness: 'a' was typed, more than the timeout has passed since, and
\* the active instance has just handled the keydown of Control: the buffer
\* is still "a"
C14_Witness ==
    /\ ev.type = "keydown" /\ ev.key = K_Control
    /\ active[1] /\ K_Control \in activeKeys[1]
    /\ sequenceBuffer[1] = K_a
    /\ now - lastKeyTime[1] > sequenceTimeout[1]

\* C15: always, for every held key, the hold mask and the press mask the
\* dispatch loop derives from the name the browser reports for it are the
\* masks the hold and press tables export under its table name.
C15_OneBitPerKey ==
    \A i \in Inst : \A n \in TableKeys :
        BrowserKey(n) \in activeKeys[i]
        => /\ GetMask(BrowserKey(n), HOLD_OFFSET) = hold(n)
           /\ GetMask(BrowserKey(n), PRESS_OFFSET) = press(n)

\* C16: while a catch-all binding press.any is registered on the active
\* instance, every first-press keydown invokes the handler of a binding and
\* is default-prevented, whatever keys are held.
C16_CatchAllTraps ==
    [][(/\ active[1] /\ B_any \in Bound(bindings[1])
        /\ ev'.type = "keydown" /\ ev'.key \notin activeKeys[1])
       => (BindingCalls(calls', 1) # <<>> /\ 1 \in prevented')]_vars

\* the chord of a keydown of key on instance i: the held keys and the key
ChordOf(i, key) == holdMaskOf(activeKeys[i]) \cup GetMask(key, PRESS_OFFSET)

\* the lookup keys a combo stands for: its hold half with each of its press
\* bits, or the combo itself when it has no press bit
KeysOf(combo) ==
    IF combo \cap PRESS_RANGE_MASK = {} THEN {combo}
    ELSE {(combo \cap HOLD_RANGE_MASK) \cup {p} : p \in combo \cap PRESS_RANGE_MASK}

\* C17: in production mode bind() always appends the binding to the list,
\* and a first-press keydown on the active instance whose chord is a lookup
\* key of two or more registered bindings invokes the handler of the one
\* registered last, and of no other binding.
C17_LastWriteWins ==
    [][~isDev =>
        /\ ev'.type = "bind" =>
              /\ Len(bindings'[1]) = Len(bindings[1]) + 1
              /\ SubSeq(bindings'[1], 1, Len(bindings[1])) = bindings[1]
              /\ bindings'[1][Len(bindings'[1])].combo = ev'.combo
        /\ (active[1] /\ ev'.type = "keydown" /\ ev'.key \notin activeKeys[1])
           => LET bs == bindings[1]
                  owners == {n \in 1..Len(bs) : ChordOf(1, ev'.key) \in KeysOf(bs[n].combo)}
              IN  Cardinality(owners) >= 2
                  => \E n \in owners :
                        /\ \A m \in owners : m <= n
                        /\ BindingCalls(calls', 1) = <<BindingCall(1, bs[n])>>]_vars

\* C17 witness: in production mode hold.s + (press.a | press.b) was bound,
\* then hold.s + press.a; with s held, the keydown of 'a' invoked the
\* handler of the second binding only
C17_Witness ==
    /\ ~isDev /\ active[1]
    /\ bindings[1] = <<B_sAB, B_sA>>
    /\ ev.type = "keydown" /\ ev.key = K_a /\ activeKeys[1] = {K_s, K_a}
    /\ calls = <<BindingCall(1, B_sA)>>

\* C18 (as stated): always, for every binding of the list, the number of
\* lookup keys that resolve to it is the number of its press bits, or one
\* when it has no press bit.
C18_ExactlyKEntries ==
    \A b \in Bound(bindings[1]) :
        LET K == Cardinality(b.combo \cap PRESS_RANGE_MASK)
        IN  Cardinality({k \in DOMAIN lookup[1] : lookup[1][k] = b}) = (IF K = 0 THEN 1 ELSE K)

\* C18 (amended): always, the lookup keys that resolve to a binding of the
\* list are those of its own keys (its hold half with each press bit, or the
\* combo itself without a press bit) that no different binding registered
\* after its last registration has: exactly K when no later binding shares
\* a key with it; and every key of the map resolves to a binding of the list.
C18_EntriesNotOverwritten ==
    LET bs == bindings[1]
    IN  /\ \A n \in 1..Len(bs) :
              (\A m \in (n + 1)..Len(bs) : bs[m] # bs[n])
              => {k \in DOMAIN lookup[1] : lookup[1][k] = bs[n]}
                    = KeysOf(bs[n].combo)
                        \ UNION {KeysOf(bs[m].combo) : m \in (n + 1)..Len(bs)}
        /\ \A k \in DOMAIN lookup[1] : lookup[1][k] \in Bound(bs)

\* C18 witness: hold.s + (press.a | press.b) and then hold.s + press.a are
\* registered: one key resolves to the first, one to the second
C18_Witness ==
    /\ bindings[1] = <<B_sAB, B_sA>>
    /\ lookup[1][hold(K_s) \cup press(K_b)] = B_sAB
    /\ lookup[1][hold(K_s) \cup press(K_a)] = B_sA
    /\ Cardinality(DOMAIN lookup[1]) = 2

\* C19: destroy() leaves the instance inactive, with no listener attached
\* and no registry entry, with no onChange subscriber, no onUpdate callback,
\* no sequence and an empty sequence buffer; and a destroy() that follows a
\* destroy() of the same instance at once changes no field of any instance,
\* no listener, no registry entry and no timer, and notifies nobody.
C19_DestroyIdempotent ==
    [][\A i \in Inst :
        (ev'.type = "destroy" /\ ev'.inst = i)
        => /\ ~active'[i]
           /\ \A n \in 1..Len(listeners') : listeners'[n].inst # i
           /\ \A tg \in DOMAIN targetRegistry' :
                 \A n \in 1..Len(targetRegistry'[tg]) : targetRegistry'[tg][n] # i
           /\ changeListeners'[i] = <<>>
           /\ ~onUpdate'[i]
           /\ sequences'[i] = <<>>
           /\ sequenceBuffer'[i] = <<>>
           /\ (ev.type = "destroy" /\ ev.inst = i)
              => /\ changes' = <<>> /\ toggles' = <<>> /\ calls' = <<>>
                 /\ UNCHANGED <<target, bindings, active, activeKeys, lookup,
                                changeListeners, onUpdate, sequences, sequenceBuffer,
                                sequenceIdCounter, lastKeyTime, sequenceTimeout,
                                listeners, targetRegistry, timers, now>>]_vars

\* C19 witness: destroy() was called on the active instance, which had an
\* onChange subscriber (it was notified of the deactivation) and had
\* registered a sequence
C19_Witness ==
    /\ ev.type = "destroy" /\ ev.inst = 1
    /\ toggles = <<[inst |-> 1, active |-> FALSE]>>
    /\ changes = <<[inst |-> 1, fn |-> "fn"]>>
    /\ sequenceIdCounter[1] = 1
    /\ ~active[1] /\ sequences[1] = <<>> /\ changeListeners[1] = <<>> /\ ~onUpdate[1]

\* C20: a first-press keydown that resolves to a binding with a delay sets a
\* timer for its handler and does not call it; no operation but the firing
\* of a timer removes or changes a pending timer; and when a timer fires,
\* the handler of its binding is invoked once, whether or not the binding is
\* still registered, its key still down and the instance still active.
C20_DelayedFireAndForget ==
    [][/\ (/\ active[1] /\ ev'.type = "keydown" /\ ev'.key \notin activeKeys[1]
           /\ ChordOf(1, ev'.key) \in DOMAIN lookup[1]
           /\ lookup[1][ChordOf(1, ev'.key)].delay > 0)
          => /\ timers' = Append(timers, [inst |-> 1,
                                          binding |-> lookup[1][ChordOf(1, ev'.key)],
                                          due |-> now + lookup[1][ChordOf(1, ev'.key)].delay])
             /\ BindingCalls(calls', 1) = <<>>
       /\ ev'.type # "timer" => SubSeq(timers', 1, Len(timers)) = timers
       /\ ev'.type = "timer"
          => \E n \in 1..Len(timers) :
                /\ timers[n].due <= now
                /\ timers' = SubSeq(timers, 1, n - 1) \o SubSeq(timers, n + 1, Len(timers))
                /\ calls' = <<BindingCall(timers[n].inst, timers[n].binding)>>]_vars

\* C20 witness: the timer of the delayed binding fired and its handler was
\* invoked, after the binding was unbound and the instance destroyed or
\* deactivated (its key is no longer held)
C20_Witness ==
    /\ ev.type = "timer"
    /\ calls = <<BindingCall(1, B_aDelayed)>>
    /\ ~active[1] /\ bindings[1] = <<>> /\ activeKeys[1] = {}

C22_ChangeNotified ==
    [][\A i \in Inst :
        LET subscribed == changeListeners[i]
            each == [n \in 1..Len(subscribed) |-> [inst |-> i, fn |-> subscribed[n]]]
            sent == SentBy(changes', i)
        IN  /\ (ev'.inst = i /\
                 \/ ev'.type = "bind" /\ Len(bindings'[i]) > Len(bindings[i])
                 \/ ev'.type = "unbind"
                 \/ ev'.type \in {"activate", "deactivate"} /\ active'[i] # active[i])
               => sent = each
            /\ \A n \in 1..Len(sent) :
                  /\ \E m \in 1..Len(subscribed) : subscribed[m] = sent[n].fn
                  /\ \A m \in 1..Len(sent) : sent[m] = sent[n] => m = n
            /\ (ev'.type = "offChange" /\ ev'.inst = i)
               => \E m \in 1..Len(subscribed) :
                     changeListeners'[i] = SubSeq(subscribed, 1, m - 1)
                                             \o SubSeq(subscribed, m + 1, Len(subscribed))
            /\ ev'.type \notin {"onChange", "offChange", "destroy"}
               => changeListeners'[i] = subscribed]_vars

\* C22 witness: of two subscribed listeners one has unsubscribed; the
\* unbind() that followed removed a binding and invoked the other one only
C22_Witness ==
    /\ ev.type = "unbind" /\ ev.removed = 1
    /\ changeListeners[1] = <<"gn">>
    /\ changes = <<[inst |-> 1, fn |-> "gn"]>>

\* C23: right after construction an instance created with bindings is
\* active, with its listeners attached and registered under its scope, and
\* one created without bindings is inactive; and an inactive instance stays
\* inactive through bind() and sequence(): it becomes active only in a
\* step in which setActive(true) is called on it.
C23_ActiveAtCreation ==
    /\ \A i \in Inst :
          IF bindings[i] # <<>>
          THEN /\ active[i]
               /\ \A type \in {"keydown", "keyup", "blur"} : Attached(i, type) = 1
               /\ RegisteredUnder(i) = {target[i]}
          ELSE ~active[i] /\ RegisteredUnder(i) = {}
    /\ [][\A i \in Inst :
            (~active[i] /\ active'[i])
            => /\ ev'.type = "activate" /\ ev'.inst = i
               /\ toggles' = <<[inst |-> i, active |-> TRUE]>>]_vars

\* C23 witness: the instance was created without bindings; a binding and a
\* sequence were added and a key went down, and it is still inactive
C23_Witness ==
    /\ ~active[1] /\ listeners = <<>>
    /\ bindings[1] # <<>> /\ sequences[1] # <<>>
    /\ ev.type = "keydown" /\ calls = <<>> /\ activeKeys[1] = {}

\* C24: bind(combo) without a handler changes no field of any instance, no
\* listener, no registry entry and no timer, and notifies no onChange
\* listener.
C24_BindWithoutHandler ==
    [][ev'.type = "bindShorthand"
       => /\ changes' = <<>> /\ toggles' = <<>> /\ calls' = <<>>
          /\ UNCHANGED <<target, bindings, active, activeKeys, lookup,
                         changeListeners, onUpdate, sequences, sequenceBuffer,
                         sequenceIdCounter, lastKeyTime, sequenceTimeout,
                         listeners, targetRegistry, timers, now>>]_vars

\* C24 witness: bind(combo) was called without a handler on the active
\* instance, which has an onChange listener and no binding for the combo
C24_Witness ==
    /\ ev.type = "bindShorthand" /\ ev.inst = 1
    /\ active[1] /\ changeListeners[1] # <<>>
    /\ ev.combo \notin DOMAIN lookup[1]

\* C25: in every state, and so after any sequence of setActive and destroy
\* calls, getActiveBindings of a window or element target is the bindings, each
\* instance's in insertion order, of the instances whose scope is that target
\* and that are active at that moment, and of no other instance
C25_ActiveBindingsOnly ==
    \A t \in {"window", "E", "out"} :
        LET res == getActiveBindings(State, t)
            got == [n \in 1..Len(res) |-> <<res[n].id, res[n].combo, res[n].handler>>]
            own(i) == [n \in 1..Len(bindings[i]) |->
                          <<bindings[i][n].id, bindings[i][n].combo, bindings[i][n].handler>>]
            scoped == {i \in Inst : active[i] /\ target[i] = t}
        IN  \/ scoped = {} /\ got = <<>>
            \/ \E i \in scoped : scoped = {i} /\ got = own(i)
            \/ scoped = Inst /\ (got = own(1) \o own(2) \/ got = own(2) \o own(1))

\* C25 witness: instance 1 was destroyed while instance 2 is active on the
\* same window: the query returns the binding of instance 2 and none of the
\* two bindings instance 1 still holds
C25_Witness ==
    /\ ev.type = "destroy" /\ ev.inst = 1
    /\ ~active[1] /\ active[2] /\ target[1] = "window" /\ target[2] = "window"
    /\ Len(bindings[1]) = 2
    /\ Len(getActiveBindings(State, "window")) = 1
    /\ getActiveBindings(State, "window")[1].id = B_sHandoff.id

\* C26: always, every key that is held has a hold mask of one bit in the low
\* 256 bits and a press mask of one bit in the high 256 bits, at a position
\* other than 255: neither mask is hold.any or press.any.
C26_BitInRange ==
    \A i \in Inst : \A k \in activeKeys[i] :
        /\ \E n \in 0..254 : GetMask(k, HOLD_OFFSET) = {n}
        /\ \E n \in 256..510 : GetMask(k, PRESS_OFFSET) = {n}
        /\ GetMask(k, HOLD_OFFSET) # ANY_HOLD
        /\ GetMask(k, PRESS_OFFSET) # ANY_PRESS

\* C27: always, two bindings written for different keys of the tables have no
\* lookup key in common.
C27_UniqueBits ==
    \A i \in Inst : \A b1 \in Bound(bindings[i]) : \A b2 \in Bound(bindings[i]) :
        b1.id # b2.id
        => \A k1 \in KeysOf(b1.combo) : \A k2 \in KeysOf(b2.combo) : k1 # k2

\* C28: always, a chord written as the sum of the hold masks of different
\* keys and one press mask is their union: its hold half is exactly the bits
\* of the hold names and its press half the one bit of the press name.
C28_SumIsUnion ==
    \A i \in Inst : \A b \in Bound(bindings[i]) :
        LET holdBits == {getBitPos(h) : h \in b.id.holds}
            pressBit == getBitPos(b.id.press) + 256
        IN  /\ b.combo = holdBits \cup {pressBit}
            /\ b.combo \cap (0..255) = holdBits
            /\ b.combo \cap (256..511) = {pressBit}

\* C28 witness: hold.ctrl + hold.a + press.F1 is bound, and so is the sum of
\* one hold mask and one press mask, hold.alt + press.F2
C28_Witness ==
    /\ ev.type = "bind"
    /\ \E b \in Bound(bindings[1]) :
        /\ b.id = [holds |-> {N_ctrl, K_a}, press |-> <<70, 49>>]
        /\ b.combo = {1, 97, 454}
    /\ \E b \in Bound(bindings[1]) :
        /\ b.id = [holds |-> {N_alt}, press |-> <<70, 50>>]
        /\ b.combo = {3, 454}

\* C29: always, the text of a bound chord lists its hold keys before its
\* press key, the modifiers first in the order Control, Shift, Alt, Meta and
\* the other hold keys in alphabetical order after them.
C29_ModifiersFirst ==
    \A i \in Inst : \A b \in Bound(bindings[i]) :
        LET parts == comboParts(b.combo)
            modifiers == SelectSeq(<<N_ctrl, N_shift, N_alt, N_meta>>,
                                   LAMBDA m : m \in b.id.holds)
            others == SelectSeq(<<K_a, K_b, K_s>>, LAMBDA o : o \in b.id.holds)
        IN  /\ Len(parts) = Cardinality(b.id.holds) + 1
            /\ SubSeq(parts, 1, Len(parts) - 1) = modifiers \o others

\* C30: unbind(c) leaves in the bindings list, in their order, exactly the
\* bindings whose combo is not c; when no binding has the combo c, as when c
\* is one exploded variant of a bound combo or was never bound, the bindings
\* list and the lookup map are unchanged.
C30_UnbindExact ==
    [][\A i \in Inst :
        (ev'.type = "unbind" /\ ev'.inst = i)
        => /\ bindings'[i] = SelectSeq(bindings[i], LAMBDA b : b.combo # ev'.combo)
           /\ (\A b \in Bound(bindings[i]) : b.combo # ev'.combo)
              => (bindings'[i] = bindings[i] /\ lookup'[i] = lookup[i])]_vars

\* C30 witness: hold.s + press.a, an exploded variant of the one bound combo
\* hold.s + (press.a | press.b), was unbound: nothing was removed and both
\* lookup keys still resolve to the binding
C30_Witness ==
    /\ ev.type = "unbind" /\ ev.inst = 1 /\ ev.combo = B_sA.combo /\ ev.removed = 0
    /\ bindings[1] = <<B_sAB>>
    /\ DOMAIN lookup[1] = KeysOf(B_sAB.combo)
    /\ lookup[1][B_sA.combo] = B_sAB

\* C31: always, the lookup map of an instance is the map got by starting
\* empty and inserting the exploded keys of each binding of its bindings list
\* in list order, a later binding overwriting an earlier one; bind() appends
\* to the list, in their order, the bindings it added (all of them in
\* production mode), and unbind() keeps the others in their order.
C31_LookupConsistent ==
    /\ [](\A i \in Inst :
            LET bs == bindings[i]
                last(k) == CHOOSE n \in 1..Len(bs) :
                              /\ k \in KeysOf(bs[n].combo)
                              /\ \A m \in 1..Len(bs) : k \in KeysOf(bs[m].combo) => m <= n
            IN  lookup[i] = [k \in UNION {KeysOf(bs[n].combo) : n \in 1..Len(bs)} |-> bs[last(k)]])
    /\ [][\A i \in Inst :
            /\ (ev'.type = "bindArray" /\ ev'.inst = i)
               => \E n \in 0..Len(ev'.before) :
                     /\ bindings'[i] = bindings[i] \o SubSeq(ev'.before, 1, n)
                     /\ ~isDev => n = Len(ev'.before)
            /\ (ev'.type = "bind" /\ ev'.inst = i)
               => \/ isDev /\ bindings'[i] = bindings[i]
                  \/ /\ Len(bindings'[i]) = Len(bindings[i]) + 1
                     /\ SubSeq(bindings'[i], 1, Len(bindings[i])) = bindings[i]
                     /\ bindings'[i][Len(bindings'[i])].combo = ev'.combo
            /\ (ev'.type = "unbind" /\ ev'.inst = i)
               => bindings'[i] = SelectSeq(bindings[i], LAMBDA b : b.combo # ev'.combo)]_vars

\* C31 witness: in production mode hold.s + (press.a | press.b), whose
\* lookup keys include the one of hold.s + press.a, was unbound while
\* hold.s + press.a stays bound: the rebuilt lookup map has the one key of the
\* binding that is left
C31_Witness ==
    /\ ~isDev /\ ev.type = "unbind" /\ ev.combo = B_sAB.combo /\ ev.removed = 1
    /\ bindings[1] = <<B_sA>>
    /\ lookup[1] = (B_sA.combo :> B_sA)

\* C39: in development mode a bind() call that raises a conflict leaves the
\* bindings list and the lookup map as they were before the call, and no
\* onChange listener is called.  (A call conflicts when a lookup key of one of
\* its bindings is taken, by a registered binding or by an earlier binding of
\* the same array.)
C39_FailedBindAtomic ==
    [][\A i \in Inst :
        (/\ isDev /\ ev'.type = "bindArray" /\ ev'.inst = i
         /\ \E n \in 1..Len(ev'.before) : \E k \in KeysOf(ev'.before[n].combo) :
               \/ k \in DOMAIN lookup[i]
               \/ \E m \in 1..(n - 1) : k \in KeysOf(ev'.before[m].combo))
        => /\ bindings'[i] = bindings[i]
           /\ lookup'[i] = lookup[i]
           /\ changes' = <<>>]_vars

\* C32 (as stated): a first-press keydown on the active instance that matches
\* a binding and completes a sequence invokes the handler of the sequence
\* (of the one registered first, when it completes several),
\* then the handler of the binding, once each; and when the handler of the
\* sequence deactivates the instance or unbinds the key, the key does not
\* join the held keys.
C32_SequenceThenBinding ==
    [][(/\ active[1] /\ ev'.type = "keydown" /\ ev'.key \notin activeKeys[1]
        /\ ChordOf(1, ev'.key) \in DOMAIN lookup[1])
       => LET b == lookup[1][ChordOf(1, ev'.key)]
              matching == {n \in 1..Len(sequences[1]) :
                              IsSuffix(sequences[1][n].sequence, TypedWith(ev'.key, now'))}
          IN  \A n \in matching :
                 (\A m \in matching : n <= m)
                 => /\ calls' = <<SequenceCall(1, sequences[1][n]), BindingCall(1, b)>>
                    /\ sequences[1][n].handler \in {"deactivate", "unbind"}
                       => ev'.key \notin activeKeys'[1]]_vars

\* C32 (amended): the same two calls in the same order; the key does not join
\* the held keys when the handler of the sequence deactivates the instance,
\* and joins them otherwise, also when that handler unbinds the key.  A
\* keydown that matches a binding and completes no sequence invokes the
\* handler of the binding only.
C32_SequenceThenBindingHeld ==
    [][(/\ active[1] /\ ev'.type = "keydown" /\ ev'.key \notin activeKeys[1]
        /\ ChordOf(1, ev'.key) \in DOMAIN lookup[1])
       => LET b == lookup[1][ChordOf(1, ev'.key)]
              matching == {n \in 1..Len(sequences[1]) :
                              IsSuffix(sequences[1][n].sequence, TypedWith(ev'.key, now'))}
          IN  /\ matching = {} => calls' = <<BindingCall(1, b)>>
              /\ \A n \in matching :
                    (\A m \in matching : n <= m)
                    => /\ calls' = <<SequenceCall(1, sequences[1][n]), BindingCall(1, b)>>
                       /\ 1 \in prevented'
                       /\ (ev'.key \in activeKeys'[1])
                             <=> (sequences[1][n].handler # "deactivate")]_vars

\* C32 witness: the keydown of 'a' completed the sequence "ba", whose handler
\* unbound press.a, and then the handler of the binding press.a, resolved
\* before, was invoked; the instance is active and 'a' is held
C32_Witness ==
    /\ ev.type = "keydown" /\ ev.key = K_a
    /\ Len(calls) = 2 /\ calls[1].kind = "sequence" /\ calls[2] = BindingCall(1, B_a)
    /\ \E q \in Sequences(1) : q.handler = "unbind" /\ calls[1] = SequenceCall(1, q)
    /\ bindings[1] = <<>> /\ lookup[1] = <<>>
    /\ active[1] /\ K_a \in activeKeys[1]

\* C36: the timeout that decides whether typed characters have expired is,
\* once a sequence is registered, the timeout that sequence was registered
\* with (1000 ms without the option); registering a sequence while another is
\* registered, and unsubscribing one, do not change it.
C36_OwnTimeout ==
    [][\A i \in Inst :
        /\ (/\ ev'.type = "sequence" /\ ev'.inst = i
            /\ Len(sequences'[i]) = Len(sequences[i]) + 1)
           => /\ sequenceTimeout'[i] = IF ev'.before >= 0 THEN ev'.before
                                       ELSE DEFAULT_SEQUENCE_TIMEOUT
              /\ sequences[i] # <<>> => sequenceTimeout'[i] = sequenceTimeout[i]
        /\ (ev'.type = "unsubscribe" /\ ev'.inst = i)
           => sequenceTimeout'[i] = sequenceTimeout[i]]_vars

\* C33: a first-press keydown on the active instance that resolves to a
\* binding with a delay and without repeat sets exactly one timer, invokes no
\* handler and puts the key among the held keys at once; a further keydown of
\* that key while it is held sets no timer and invokes no handler, whatever
\* time has passed and whether or not the timer has fired.
C33_OneCallPerPress ==
    [][/\ (/\ active[1] /\ ev'.type = "keydown" /\ ev'.key \notin activeKeys[1]
           /\ \E b \in Bound(bindings[1]) :
                 /\ b.delay > 0 /\ ~b.repeat
                 /\ ChordOf(1, ev'.key) \in KeysOf(b.combo))
          => /\ Len(timers') = Len(timers) + 1
             /\ calls' = <<>>
             /\ ev'.key \in activeKeys'[1]
       /\ (active[1] /\ ev'.type = "keydown" /\ ev'.key \in activeKeys[1])
          => /\ timers' = timers
             /\ calls' = <<>>
             /\ activeKeys'[1] = activeKeys[1]]_vars

\* C33 witness: the keydown of 'a' came again while 'a' is held and the
\* timer set by its first keydown is still pending, its delay not yet over:
\* there is still one timer and no handler was called
C33_Witness ==
    /\ ev.type = "keydown" /\ ev.key = K_a
    /\ active[1] /\ activeKeys[1] = {K_a}
    /\ sequenceBuffer[1] = <<97, 97>>
    /\ Len(timers) = 1 /\ timers[1].binding = B_aDelayed /\ timers[1].due > now
    /\ calls = <<>>

\* C38: setActive(false) and setActive(true) leave the sequence buffer and
\* the time of the last key as they are; the buffer is emptied only by a
\* keydown (a match, or the idle timeout before the key is appended) or a
\* blur.  So when the instance has been switched on again with 'a' typed
\* before it was switched off, and 'b' goes down within the timeout, the
\* first registered sequence "ab" is invoked, provided no sequence "b" is
\* registered.
C38_BufferSurvivesToggle ==
    [][/\ ev'.type \in {"activate", "deactivate"}
          => /\ sequenceBuffer' = sequenceBuffer
             /\ lastKeyTime' = lastKeyTime
       /\ (sequenceBuffer[1] # <<>> /\ sequenceBuffer'[1] = <<>>)
          => ev'.type \in {"keydown", "blur"}
       /\ (/\ ev.type = "activate" /\ toggles # <<>>
           /\ sequenceBuffer[1] = K_a
           /\ ev'.type = "keydown" /\ ev'.key = K_b
           /\ now' - lastKeyTime[1] <= sequenceTimeout[1]
           /\ \E q \in Sequences(1) : q.sequence = T_ab
           /\ \A q \in Sequences(1) : q.sequence # K_b)
          => \E n \in 1..Len(sequences[1]) :
                /\ sequences[1][n].sequence = T_ab
                /\ \A m \in 1..(n - 1) : sequences[1][m].sequence # T_ab
                /\ SequenceCalls(calls', 1) = <<SequenceCall(1, sequences[1][n])>>]_vars

\* C38 witness: the instance has just been switched on again; the 'a' typed
\* before it was switched off is still in the buffer with its time, and the
\* sequence "ab" is registered
C38_Witness ==
    /\ ev.type = "activate" /\ toggles = <<[inst |-> 1, active |-> TRUE]>>
    /\ active[1]
    /\ sequenceBuffer[1] = K_a /\ lastKeyTime[1] = now
    /\ \E q \in Sequences(1) : q.sequence = T_ab

\* C35: held keys follow physical keys: when a key comes up, an active
\* instance no longer holds it, under the name of its keydown or under the
\* name of its keyup (the names differ in case at most), also when the
\* target of the keyup lies outside the scope of the instance.
C35_HeldFollowsPhysical ==
    [][ev'.type = "keyup"
       => \A i \in Inst :
            active'[i] => \A k \in activeKeys'[i] :
                             toLowerCase(k) # toLowerCase(ev'.key)]_vars

\* C34: a first-press keydown on the active instance invokes the handler of
\* a binding, or prevents the default action, only when the keys held are
\* exactly the keys the hold half of a binding was written with: with any
\* further key held, neither the binding nor the catch-all fires.
C34_ExactChord ==
    [][(active[1] /\ ev'.type = "keydown" /\ ev'.key \notin activeKeys[1])
       => /\ \A b \in Bound(bindings[1]) :
               BindingCalls(calls', 1) = <<BindingCall(1, b)>>
               => activeKeys[1] = b.id.holds
          /\ 1 \in prevented'
             => \E b \in Bound(bindings[1]) : activeKeys[1] = b.id.holds]_vars

\* C37 (as stated): in every reachable state the buffer of the instance is at
\* most as long as the longest registered sequence, and at most 50 characters
\* when no registered sequence is longer than that.
C37_BufferBound ==
    Len(sequenceBuffer[1]) <=
        MaxOf({BUFFER_MARGIN} \cup {Len(q.sequence) : q \in Sequences(1)})

\* C37 (amended): the bound holds after every keydown of a character on the
\* active instance, for the sequences registered at that keydown: the buffer
\* is then empty (a sequence matched) or holds the most recently typed
\* characters, as many as the bound allows; registering and unsubscribing a
\* sequence leave the buffer as it is.
C37_BufferBoundAtKeydown ==
    [][/\ (active[1] /\ ev'.type = "keydown" /\ isSequenceKey(ev'.key))
          => LET typed == TypedWith(ev'.key, now')
                 lens == {BUFFER_MARGIN} \cup {Len(q.sequence) : q \in Sequences(1)}
                 maxLen == CHOOSE m \in lens : \A n \in lens : n <= m
                 kept == IF Len(typed) > maxLen THEN maxLen ELSE Len(typed)
             IN  /\ Len(sequenceBuffer'[1]) <= maxLen
                 /\ \/ sequenceBuffer'[1] = <<>>
                    \/ sequenceBuffer'[1] =
                           SubSeq(typed, Len(typed) - kept + 1, Len(typed))
       /\ ev'.type \in {"sequence", "unsubscribe"}
          => sequenceBuffer' = sequenceBuffer]_vars

\* C37 witness: no sequence is registered, the buffer held 'b' and 49 times
\* 'a', and 'a' went down: the buffer has lost the 'b' and holds 50 times 'a'
C37_Witness ==
    /\ ev.type = "keydown" /\ ev.key = K_a
    /\ sequences[1] = <<>>
    /\ ev.before = K_b \o [n \in 1..(BUFFER_MARGIN - 1) |-> 97]
    /\ sequenceBuffer[1] = [n \in 1..BUFFER_MARGIN |-> 97]

\* C40: keymash/core and the full keymash, given the same calls and events,
\* always hold the same keys, and at every keydown keymash/core invokes the
\* handlers of the bindings whose handlers the full keymash invokes.
C40_CoreIsSubset ==
    /\ [](core.k = activeKeys[1])
    /\ [][ev'.type = "keydown"
          => core'.calls = [n \in 1..Len(calls') |-> calls'[n].id]]_vars

====
